---- MODULE Spec2Model ----
(***************************************************************************)
(* A model of clawdbot_internship_automation: HandshakeBot.run (login,     *)
(* discovery, enrichment, filtering, the apply loop, cleanup) and the pure *)
(* helpers it relies on (_discover_jobs, _extract_job_id,                   *)
(* _matches_filters, QuestionAnswerer._alias_key_for_prompt).               *)
(*                                                                         *)
(* Strings are sequences of symbols (a symbol stands for a word, a path    *)
(* segment or a separator); "x in y" of Python is IsInfix(x, y).           *)
(***************************************************************************)
EXTENDS Integers, Sequences, FiniteSets, TLC

VARIABLES
    cfg,               \* AutomationConfig: application and filters settings
    pc,                \* position of run()
    browser,           \* "none" | "open" | "closed"
    closeCalls,        \* number of browser.close() calls made by run()
    tryEntered,        \* the try block of run() was entered
    error,             \* exception that left run(): its class and where it was raised
    url,               \* the URL on which _wait_for_login_completion returned
    attempt,           \* iteration of _attempt_login_submission(attempts=3)
    second,            \* loop variable of _wait_for_login_completion
    polls,             \* URL reads made by _wait_for_login_completion
    authObserved,      \* an authenticated-looking URL was read by the wait loop
    typedUrls,         \* the URL read by the latest login step, if it typed the credentials
    jobs,              \* list returned by _discover_jobs
    idx,               \* number of seed jobs the for loop has taken
    job,               \* current (enriched) job
    results,           \* results list of run()
    applied_or_ready,  \* counter of run()
    step,              \* passes of the apply loop started for the current job
    uploaded_resume,   \* local flag of _apply_to_job
    trail,             \* what happened to the current job (history)
    logFile,           \* content of artifacts/application_results.jsonl
    arg,               \* input of the pure function under check
    ret,               \* its result
    phase              \* "input" | "called"

runVars == <<cfg, pc, browser, closeCalls, tryEntered, error, url, attempt,
             second, polls, authObserved, typedUrls, jobs, idx, job, results,
             applied_or_ready, step, uploaded_resume, trail, logFile>>
fnVars == <<arg, ret, phase>>
vars == <<runVars, fnVars>>

----------------------------------------------------------------------------
(* Bounds of the model *)

MaxAnchors == 3
MaxRules == 2
MaxPromptLen == 3
MaxButtons == 2
MaxChoices == 2
MaxSlugRuns == 3
MaxKeywords == 2
MaxRadios == 3
MaxFields == 2

(* Program constants *)

LoginAttempts == 3
TimeoutSec == 180
RetryEvery == 5
StepCap == 14
DescriptionCap == 12000
DefaultQaMaxAnswerChars == 1000
DefaultAppMaxApplications == 25
SlugLimit == 60
DiscoverScanFactor == 4

----------------------------------------------------------------------------
(* Strings *)

SeqsUpTo(S, n) == UNION {[1..k -> S] : k \in 0..n}

Min(a, b) == IF a < b THEN a ELSE b

Max(a, b) == IF a > b THEN a ELSE b

\* Python's "x in y" for strings
IsInfix(x, y) ==
    \E i \in 0..(Len(y) - Len(x)) :
        \A k \in 1..Len(x) : y[i + k] = x[k]

\* str.lower(), symbol by symbol
LowerSym(c) ==
    CASE c = "Intern" -> "intern"
      [] c = "Remote" -> "remote"
      [] c = "Senior" -> "senior"
      [] c = "Submit" -> "submit"
      [] c = "Next" -> "next"
      [] c = "Review" -> "review"
      [] c = "Apply" -> "apply"
      [] c = "Visa" -> "visa"
      [] c = "Yes" -> "yes"
      [] c = "No" -> "no"
      [] c = "I" -> "i"
      [] c = "Authorized to work" -> "authorized to work"
      [] c = "Relocate" -> "relocate"
      [] OTHER -> c

Lower(s) == [i \in 1..Len(s) |-> LowerSym(s[i])]

IsSpace(c) == c \in {" ", "\n"}

RECURSIVE LStrip(_)
LStrip(s) == IF s # <<>> /\ IsSpace(Head(s)) THEN LStrip(Tail(s)) ELSE s

RECURSIVE RStrip(_)
RStrip(s) ==
    IF s # <<>> /\ IsSpace(s[Len(s)]) THEN RStrip(SubSeq(s, 1, Len(s) - 1)) ELSE s

\* str.strip()
Strip(s) == RStrip(LStrip(s))

\* s[:n]
Truncate(s, n) == SubSeq(s, 1, Min(Len(s), n))

----------------------------------------------------------------------------
(* _discover_jobs and _extract_job_id (handshake_bot.py)                    *)
(* An href is a path /seg1/seg2/... with an optional query string; the     *)
(* page origin is one fixed symbol, so urljoin(page.url, path) is the      *)
(* origin followed by the path's segments.                                 *)

Origin == "https://app.joinhandshake.com"

\* "/jobs/" in href or "/postings/" in href: the segment is followed by a "/"
HasJobsPattern(href) ==
    \E i \in 1..(Len(href.segs) - 1) : href.segs[i] \in {"jobs", "postings"}

\* page.locator("a[href*='/jobs/'], a[href*='/postings/']")
JobAnchors(pageAnchors) ==
    SelectSeq(pageAnchors, LAMBDA a : HasJobsPattern(a.href))

\* urljoin(page.url, href.split("?")[0])
UrlJoin(href) == <<Origin>> \o href.segs

\* the digits \d+ matches at the start of a path segment ("" when none)
DigitsPrefix(seg) ==
    CASE seg = "123" -> "123"
      [] seg = "456" -> "456"
      [] seg = "123-swe-intern" -> "123"
      [] OTHER -> ""

\* f"idx-{index_fallback}"
IdxName(n) == <<"idx-0", "idx-1", "idx-2", "idx-3", "idx-4", "idx-5">>[n + 1]

\* re.search(r"/(?:jobs|postings)/(\d+)", url): the leftmost match
IdMatches(u) ==
    {i \in 1..(Len(u) - 1) :
        u[i] \in {"jobs", "postings"} /\ DigitsPrefix(u[i + 1]) # ""}

ExtractJobId(u, index_fallback) ==
    IF IdMatches(u) # {}
    THEN DigitsPrefix(u[(CHOOSE i \in IdMatches(u) : \A j \in IdMatches(u) : i <= j) + 1])
    ELSE IdxName(index_fallback)

\* text.splitlines(): the number of lines, and the first line
HasLines(s) == s # <<>>

RECURSIVE FirstLine(_)
FirstLine(s) ==
    IF s = <<>> \/ Head(s) = "\n" THEN <<>> ELSE <<Head(s)>> \o FirstLine(Tail(s))

UnknownRole == <<"Unknown", " ", "Role">>

SeedJob(job_id, title, u) ==
    [job_id |-> job_id, title |-> title, company |-> <<>>, location |-> <<>>,
     description |-> <<>>, url |-> u]

\* the for loop of _discover_jobs over anchors.nth(i), i (0-based) in range(count);
\* raised: (node.inner_text() or "").splitlines()[0] fails on an empty text
RECURSIVE DiscoverLoop(_, _, _, _, _, _)
DiscoverLoop(anchors, i, count, seen_urls, acc, max_discovered_jobs) ==
    IF i >= count THEN [raised |-> FALSE, jobs |-> acc]
    ELSE LET node == anchors[i + 1]
             u == UrlJoin(node.href)
         IN  IF node.href.segs = <<>> \/ ~HasJobsPattern(node.href) \/ u \in seen_urls
             THEN DiscoverLoop(anchors, i + 1, count, seen_urls, acc, max_discovered_jobs)
             ELSE IF ~HasLines(node.text)
             THEN [raised |-> TRUE, jobs |-> acc]
             ELSE LET t == Strip(FirstLine(node.text))
                      j == SeedJob(ExtractJobId(u, i),
                                   IF t # <<>> THEN t ELSE UnknownRole, u)
                      acc2 == Append(acc, j)
                  IN  IF Len(acc2) >= max_discovered_jobs
                      THEN [raised |-> FALSE, jobs |-> acc2]
                      ELSE DiscoverLoop(anchors, i + 1, count, seen_urls \cup {u},
                                        acc2, max_discovered_jobs)

DiscoverJobs(pageAnchors, max_discovered_jobs) ==
    LET anchors == JobAnchors(pageAnchors)
        count == Min(Len(anchors), max_discovered_jobs * DiscoverScanFactor)
    IN  DiscoverLoop(anchors, 0, count, {}, <<>>, max_discovered_jobs)

----------------------------------------------------------------------------
(* _matches_filters (handshake_bot.py)                                      *)

JobText(j) ==
    Lower(j.title \o <<"\n">> \o j.company \o <<"\n">> \o j.location
          \o <<"\n">> \o j.description)

\* the comprehension without its "if kw.strip()"
KeywordsUnfiltered(list) == [i \in 1..Len(list) |-> Lower(list[i])]

\* [kw.lower() for kw in keywords if kw.strip()]
Keywords(list) ==
    LET kept == SelectSeq(list, LAMBDA kw : Strip(kw) # <<>>)
    IN  [i \in 1..Len(kept) |-> Lower(kept[i])]

AnyIn(kws, text) == \E i \in 1..Len(kws) : IsInfix(kws[i], text)

MatchesFilters(j, filters) ==
    LET text == JobText(j)
        include == Keywords(filters.include_keywords)
        exclude == Keywords(filters.exclude_keywords)
        preferred_locations == Keywords(filters.preferred_locations)
    IN  IF include # <<>> /\ ~AnyIn(include, text) THEN FALSE
        ELSE IF exclude # <<>> /\ AnyIn(exclude, text) THEN FALSE
        ELSE IF filters.remote_only /\ ~IsInfix(<<"remote">>, text) THEN FALSE
        ELSE IF preferred_locations # <<>> /\ ~AnyIn(preferred_locations, text) THEN FALSE
        ELSE TRUE

----------------------------------------------------------------------------
(* QuestionAnswerer._alias_key_for_prompt (question_answerer.py)            *)

\* _load_defaults: AliasRule(key=str(key), patterns=[str(p).lower() for p in patterns])
LoadAliasRules(prompt_aliases) ==
    [i \in 1..Len(prompt_aliases) |->
        [key |-> prompt_aliases[i].key,
         patterns |-> [k \in 1..Len(prompt_aliases[i].patterns) |->
                          Lower(prompt_aliases[i].patterns[k])]]]

\* prompt_norm = (prompt or "").strip().lower() of answer()
PromptNorm(prompt) == Lower(Strip(prompt))

\* the test without its "pattern and" guard
PatternHitsUnguarded(pattern, prompt) == IsInfix(pattern, prompt)

\* "if pattern and pattern in prompt"
PatternHits(pattern, prompt) == pattern # <<>> /\ IsInfix(pattern, prompt)

RuleHits(rule, prompt) ==
    \E i \in 1..Len(rule.patterns) : PatternHits(rule.patterns[i], prompt)

RECURSIVE AliasKeyForPrompt(_, _)
AliasKeyForPrompt(alias_rules, prompt) ==
    IF alias_rules = <<>> THEN ""
    ELSE IF RuleHits(Head(alias_rules), prompt) THEN Head(alias_rules).key
    ELSE AliasKeyForPrompt(Tail(alias_rules), prompt)

----------------------------------------------------------------------------
(* Login: _is_authenticated_url, _attempt_login_submission                  *)

Host == "app.joinhandshake.com"

Urls ==
    { <<>>,
      <<"https://", Host, "/login">>,
      <<"https://", Host, "/auth/", "callback">>,
      <<"https://", "sso.school.edu", "/login">>,
      <<"https://", Host, "/stu/", "postings">>,
      <<"https://", Host, "/explore">> }

IsAuthenticatedUrl(u) ==
    LET normalized == Lower(u)
    IN  IF normalized = <<>> THEN FALSE
        ELSE IF IsInfix(<<Host, "/stu/">>, normalized) THEN TRUE
        ELSE /\ IsInfix(<<Host>>, normalized)
             /\ ~IsInfix(<<"/login">>, normalized)
             /\ ~IsInfix(<<"/auth/">>, normalized)

\* What one iteration meets:
\*   "closed"        page.is_closed() is true
\*   "ok"            fields filled, a button clicked or Enter pressed, wait done
\*   "locator_error" node.count() of _fill_first raises before anything is typed
\*   "wait_closed"   _safe_wait finds the page closed (RuntimeError)
\*   "wait_error"    _safe_wait re-raises another Playwright error
SubmissionOutcomes == {"closed", "ok", "locator_error", "wait_closed", "wait_error"}

\* "if second % 5 == 0"
RetriesAt(sec) == sec % RetryEvery = 0

\* an iteration without the test on the host of the page
AttemptIterationAnyHost(current_url, outcome) ==
    IF outcome = "closed"
    THEN [returned |-> FALSE, typed |-> FALSE, raise |-> "RuntimeError"]
    ELSE IF IsAuthenticatedUrl(current_url)
    THEN [returned |-> TRUE, typed |-> FALSE, raise |-> "none"]
    ELSE [returned |-> FALSE,
          typed |-> outcome # "locator_error",
          raise |-> CASE outcome = "ok" -> "none"
                      [] outcome = "wait_closed" -> "RuntimeError"
                      [] OTHER -> "PlaywrightError"]

\* One iteration of the for loop of _attempt_login_submission.
\*   returned: the method returns from inside the iteration
\*   typed:    email and password were filled
\*   raise:    the exception class leaving the method, or "none"
AttemptIteration(current_url, outcome) ==
    IF outcome = "closed"
    THEN [returned |-> FALSE, typed |-> FALSE, raise |-> "RuntimeError"]
    ELSE IF IsAuthenticatedUrl(current_url)
    THEN [returned |-> TRUE, typed |-> FALSE, raise |-> "none"]
    ELSE IF ~IsInfix(<<Host>>, Lower(current_url))
    THEN [returned |-> TRUE, typed |-> FALSE, raise |-> "none"]
    ELSE [returned |-> FALSE,
          typed |-> outcome # "locator_error",
          raise |-> CASE outcome = "ok" -> "none"
                      [] outcome = "wait_closed" -> "RuntimeError"
                      [] OTHER -> "PlaywrightError"]

\* a wait that returns on any page that has a URL
WaitReturnsOnAnyUrl(u) == u # <<>>

\* "if self._is_authenticated_url(url): return" of _wait_for_login_completion
WaitReturns(u) == IsAuthenticatedUrl(u)

\* _safe_goto / _safe_wait: done, RuntimeError (page closed) or the Playwright
\* error re-raised as it is
SafeCallOutcomes == {"ok", "RuntimeError", "PlaywrightError"}

----------------------------------------------------------------------------
(* Buttons of the application form                                         *)

SubmitPatterns == << <<"submit">>, <<"send", " ", "application">>, <<"finish">> >>

NextPatterns ==
    << <<"next">>, <<"continue">>, <<"review">>,
       <<"save", " ", "and", " ", "continue">> >>

ApplyPatterns ==
    << <<"easy", " ", "apply">>, <<"quick", " ", "apply">>, <<"apply", " ", "now">> >>

NoButton == <<>>

\* page.get_by_role("button", name=re.compile(pattern, re.IGNORECASE))
ByRole(buttons, pattern) ==
    SelectSeq(buttons, LAMBDA b : IsInfix(pattern, Lower(b.name)))

\* the accessible name matches one of the submit patterns
SubmitLabeled(name) ==
    \E i \in 1..Len(SubmitPatterns) : IsInfix(SubmitPatterns[i], Lower(name))

HasSubmitButton(buttons) ==
    \E i \in 1..Len(SubmitPatterns) :
        LET button == ByRole(buttons, SubmitPatterns[i])
        IN  Len(button) > 0 /\ button[1].visible

\* _click_button: the name of the button clicked, NoButton when it returns False.
\* enabled = FALSE also stands for a click() that raises: both go on to the
\* next pattern.
RECURSIVE ClickButton(_, _)
ClickButton(buttons, patterns) ==
    IF patterns = <<>> THEN NoButton
    ELSE LET button == ByRole(buttons, Head(patterns))
         IN  IF Len(button) > 0 /\ button[1].visible /\ button[1].enabled
             THEN button[1].name
             ELSE ClickButton(buttons, Tail(patterns))

ClickNextStep(buttons) == ClickButton(buttons, NextPatterns)

\* _click_apply: the buttons by pattern (r"^apply$" matches the whole name), else
\* the first a:has-text('Apply') link
ClickApply(buttons, link) ==
    LET exact == SelectSeq(buttons, LAMBDA b : Lower(b.name) = <<"apply">>)
    IN  \/ ClickButton(buttons, ApplyPatterns) # NoButton
        \/ Len(exact) > 0 /\ exact[1].visible /\ exact[1].enabled
        \/ link = "visible"

\* _upload_resume_if_visible: the first visible file input that takes the file
UploadResumeIfVisible(uploaders) ==
    \E i \in 1..Len(uploaders) : uploaders[i].visible /\ uploaders[i].accepts

\* "if self.config.application.dry_run or not self.config.application.auto_submit"
StopsBeforeSubmit(application) == application.dry_run \/ ~application.auto_submit

ReadyStatuses == {"applied", "ready_to_submit", "dry_run_ready"}

\* ApplicationResult
Result(j, status, reason) ==
    [job_id |-> j.job_id, title |-> j.title, company |-> j.company, url |-> j.url,
     status |-> status, reason |-> reason]

\* json.dumps({...}) + "\n": one line of the results log
JsonLine(result) ==
    [job_id |-> result.job_id, title |-> result.title, company |-> result.company,
     url |-> result.url, status |-> result.status, reason |-> result.reason]

\* the lines _write_results writes for a list of results
JsonLines(rs) == [i \in 1..Len(rs) |-> JsonLine(rs[i])]

----------------------------------------------------------------------------
(* Inputs of a run                                                         *)

Href(segs, query) == [segs |-> segs, query |-> query]

Anchor(href, text) == [href |-> href, text |-> text]

\* anchors the jobs page of a run may show (the last one has no text)
RunAnchors ==
    { Anchor(Href(<<"stu", "jobs", "123">>, FALSE), <<"SWE", " ", "Intern">>),
      Anchor(Href(<<"stu", "postings", "123">>, TRUE), <<" ", "\n", "Senior">>),
      Anchor(Href(<<"stu", "jobs", "new">>, FALSE), <<>>) }

\* what _first_text reads on a job's page
ScrapedPages ==
    { [h1 |-> <<"Software", " ", "Intern">>, employer |-> <<"Acme">>,
       location |-> <<"Remote">>, body |-> <<"paid", " ", "intern">>],
      [h1 |-> <<>>, employer |-> <<>>, location |-> <<>>,
       body |-> <<"Senior", " ", "engineer">>] }

FilterConfigs ==
    { [include_keywords |-> << <<"Intern">> >>,
       exclude_keywords |-> << <<"senior">>, <<" ">> >>,
       preferred_locations |-> <<>>, remote_only |-> FALSE,
       max_discovered_jobs |-> 2],
      [include_keywords |-> <<>>, exclude_keywords |-> <<>>,
       preferred_locations |-> << <<"remote">> >>, remote_only |-> TRUE,
       max_discovered_jobs |-> 2] }

ApplicationConfigs ==
    [dry_run : BOOLEAN, auto_submit : BOOLEAN, max_applications : {-1, 0, 1, 2}]

ButtonNames ==
    { <<"Submit">>, <<"Next">>, <<"Review", " ", "and", " ", "Submit">> }

\* a hidden button is never clicked whatever is_enabled() says
Buttons ==
    { [name |-> n, visible |-> v, enabled |-> e] :
        n \in ButtonNames, v \in BOOLEAN, e \in BOOLEAN } \
    { b \in [name : ButtonNames, visible : BOOLEAN, enabled : BOOLEAN] :
        ~b.visible /\ ~b.enabled }

ButtonLists == SeqsUpTo(Buttons, MaxButtons)

\* what a pass of the apply loop gets from the buttons of a page: the answer of
\* _has_submit_button, and the button _click_submit and _click_next_step click
ButtonOutcome(buttons) ==
    [has_submit |-> HasSubmitButton(buttons),
     submit |-> ClickButton(buttons, SubmitPatterns),
     next |-> ClickNextStep(buttons)]

ButtonOutcomes == {ButtonOutcome(buttons) : buttons \in ButtonLists}

ApplyButtonLists ==
    { <<>>,
      << [name |-> <<"Apply">>, visible |-> TRUE, enabled |-> TRUE] >>,
      << [name |-> <<"Easy", " ", "Apply">>, visible |-> TRUE, enabled |-> FALSE] >>,
      << [name |-> <<"Apply", " ", "externally">>, visible |-> TRUE, enabled |-> TRUE] >> }

ApplyLinks == {"none", "hidden", "visible", "click_fails"}

UploaderLists ==
    { <<>>,
      << [visible |-> TRUE, accepts |-> TRUE] >>,
      << [visible |-> FALSE, accepts |-> TRUE], [visible |-> TRUE, accepts |-> FALSE] >> }

NoJob == SeedJob("", <<>>, <<>>)

NoError == [kind |-> "none", at |-> "none"]

\* history of the current job
NoTrail ==
    [enriched |-> FALSE, enrichError |-> "none", enrichPage |-> "none",
     passed |-> FALSE, pageOpen |-> FALSE, applyClicked |-> FALSE,
     resumeBuilt |-> 0, uploads |-> 0, uploadTried |-> FALSE, submitSeen |-> FALSE,
     submitClicks |-> 0, submitLabeledClicked |-> FALSE, raised |-> "none", exit |-> "none"]

----------------------------------------------------------------------------
(* HandshakeBot.run                                                        *)

\* what an earlier run left in artifacts/application_results.jsonl
PriorLog == <<JsonLine(Result(NoJob, "applied", ""))>>

\* the state before run() has done anything
RunLocals ==
    /\ browser = "none"
    /\ closeCalls = 0
    /\ tryEntered = FALSE
    /\ error = NoError
    /\ url = <<>>
    /\ attempt = 0
    /\ second = 0
    /\ polls = 0
    /\ authObserved = FALSE
    /\ typedUrls = {}
    /\ jobs = <<>>
    /\ idx = 0
    /\ job = NoJob
    /\ results = <<>>
    /\ applied_or_ready = 0
    /\ step = 0
    /\ uploaded_resume = FALSE
    /\ trail = NoTrail
    /\ logFile = [content |-> PriorLog, writes |-> 0]

RunInit ==
    /\ cfg \in [application : ApplicationConfigs, filters : FilterConfigs]
    /\ pc = "start"
    /\ RunLocals

FnIdle == arg = "none" /\ ret = "none" /\ phase = "idle"

Init == RunInit /\ FnIdle

loginVars == <<url, attempt, second, polls, authObserved, typedUrls>>
loopVars == <<jobs, idx, job, results, applied_or_ready>>
applyVars == <<step, uploaded_resume, trail>>
envVars == <<cfg, logFile, arg, ret, phase>>

\* an exception leaves the try block of run(): the finally clause runs next
Raise(kind) ==
    /\ pc' = "finally"
    /\ error' = [kind |-> kind, at |-> pc]

\* _new_browser: launch, then new_context; the try block starts after both
NewBrowser ==
    /\ pc = "start"
    /\ \/ /\ pc' = "pw_exit"
          /\ error' = [kind |-> "PlaywrightError", at |-> pc]
          /\ UNCHANGED <<browser, tryEntered>>
       \/ /\ browser' = "open"
          /\ pc' = "pw_exit"
          /\ error' = [kind |-> "PlaywrightError", at |-> pc]
          /\ UNCHANGED tryEntered
       \/ /\ browser' = "open"
          /\ tryEntered' = TRUE
          /\ pc' = "open_login"
          /\ UNCHANGED error
    /\ UNCHANGED <<closeCalls, loginVars, loopVars, applyVars, envVars>>

\* context.new_page(), set_default_timeout, then _safe_goto(login_url)
OpenLoginPage ==
    /\ pc = "open_login"
    /\ \E outcome \in SafeCallOutcomes :
          IF outcome = "ok"
          THEN pc' = "login_attempt" /\ attempt' = 0 /\ UNCHANGED error
          ELSE Raise(outcome) /\ UNCHANGED attempt
    /\ UNCHANGED <<browser, closeCalls, tryEntered, url, second, polls, authObserved,
                   typedUrls, loopVars, applyVars, envVars>>

\* one iteration of _attempt_login_submission(page, attempts=3), called by _login
AttemptLoginSubmission ==
    /\ pc = "login_attempt"
    /\ \E u \in Urls, outcome \in SubmissionOutcomes :
          LET it == AttemptIteration(u, outcome)
          IN  /\ typedUrls' = IF it.typed THEN {u} ELSE {}
              /\ IF it.raise # "none"
                 THEN Raise(it.raise) /\ UNCHANGED <<attempt, second>>
                 ELSE IF it.returned \/ attempt + 1 >= Max(1, LoginAttempts)
                 THEN pc' = "login_wait" /\ second' = 0 /\ attempt' = 0 /\ UNCHANGED error
                 ELSE pc' = "login_attempt" /\ attempt' = attempt + 1
                      /\ UNCHANGED <<second, error>>
    /\ UNCHANGED <<browser, closeCalls, tryEntered, url, polls, authObserved,
                   loopVars, applyVars, envVars>>

\* one iteration of the for loop of _wait_for_login_completion(page, timeout_sec=180):
\* is_closed, read the URL, return when it looks authenticated, on every 5th second
\* _attempt_login_submission(page, attempts=1), then _safe_wait(page, 1000)
WaitForLoginCompletion ==
    /\ pc = "login_wait"
    /\ second < TimeoutSec
    /\ \/ Raise("RuntimeError") /\ UNCHANGED <<url, second, polls, authObserved, typedUrls>>
       \/ \E u \in Urls :
             /\ polls' = polls + 1
             /\ authObserved' = (authObserved \/ IsAuthenticatedUrl(u))
             /\ IF WaitReturns(u)
                THEN /\ url' = u
                     /\ pc' = "goto_jobs"
                     /\ typedUrls' = {}
                     /\ UNCHANGED <<second, error>>
                ELSE /\ UNCHANGED url
                     /\ IF RetriesAt(second)
                        THEN \E u2 \in Urls, outcome \in SubmissionOutcomes,
                                wait \in SafeCallOutcomes :
                                LET it == AttemptIteration(u2, outcome)
                                    raise == IF it.raise # "none" THEN it.raise
                                             ELSE IF wait # "ok" THEN wait ELSE "none"
                                IN  /\ typedUrls' = IF it.typed THEN {u2} ELSE {}
                                    /\ IF raise # "none"
                                       THEN Raise(raise) /\ UNCHANGED second
                                       ELSE second' = second + 1 /\ UNCHANGED <<pc, error>>
                        ELSE \E wait \in SafeCallOutcomes :
                                /\ typedUrls' = {}
                                /\ IF wait # "ok"
                                   THEN Raise(wait) /\ UNCHANGED second
                                   ELSE second' = second + 1 /\ UNCHANGED <<pc, error>>
    /\ UNCHANGED <<browser, closeCalls, tryEntered, attempt, loopVars, applyVars, envVars>>

\* the for loop ends without a return: RuntimeError("Timed out waiting ...")
LoginTimeout ==
    /\ pc = "login_wait"
    /\ second >= TimeoutSec
    /\ Raise("RuntimeError")
    /\ UNCHANGED <<browser, closeCalls, tryEntered, loginVars, loopVars, applyVars, envVars>>

\* _safe_goto(page, jobs_url) and _safe_wait(page, 1500), the end of _login; the
\* locals of the login methods are gone after it
GotoJobs ==
    /\ pc = "goto_jobs"
    /\ \E outcome \in SafeCallOutcomes :
          IF outcome = "ok" THEN pc' = "discover" /\ UNCHANGED error ELSE Raise(outcome)
    /\ url' = <<>>
    /\ typedUrls' = {}
    /\ attempt' = 0
    /\ second' = 0
    /\ polls' = 0
    /\ UNCHANGED <<browser, closeCalls, tryEntered, authObserved, loopVars, applyVars, envVars>>

\* jobs = self._discover_jobs(page)
Discover ==
    /\ pc = "discover"
    /\ \/ Raise("PlaywrightError") /\ UNCHANGED jobs
       \/ \E pageAnchors \in SeqsUpTo(RunAnchors, MaxAnchors) :
             LET d == DiscoverJobs(pageAnchors, cfg.filters.max_discovered_jobs)
             IN  IF d.raised
                 THEN Raise("IndexError") /\ UNCHANGED jobs
                 ELSE jobs' = d.jobs /\ pc' = "loop" /\ UNCHANGED error
    /\ UNCHANGED <<browser, closeCalls, tryEntered, loginVars, idx, job, results,
                   applied_or_ready, applyVars, envVars>>

\* the cap compared with ">" instead of ">="
CapReachedLate(count, application) == count > application.max_applications

\* "if applied_or_ready >= self.config.application.max_applications: break"
CapReached(count, application) == count >= application.max_applications

\* the head of "for seed_job in jobs": the list is exhausted, the cap breaks the
\* loop, or the next seed is taken
NextJob ==
    /\ pc = "loop"
    /\ \/ /\ idx >= Len(jobs)
          /\ pc' = "finally"
          /\ UNCHANGED <<idx, job, trail>>
       \/ /\ idx < Len(jobs)
          /\ CapReached(applied_or_ready, cfg.application)
          /\ pc' = "finally"
          /\ UNCHANGED <<idx, job, trail>>
       \/ /\ idx < Len(jobs)
          /\ ~CapReached(applied_or_ready, cfg.application)
          /\ idx' = idx + 1
          /\ job' = jobs[idx + 1]
          /\ trail' = NoTrail
          /\ pc' = "enrich"
    /\ UNCHANGED <<browser, closeCalls, tryEntered, error, loginVars, jobs, results,
                   applied_or_ready, step, uploaded_resume, envVars>>

\* the JobPosting _enrich_job builds from a scraped page
Enriched(seed, p) ==
    [job_id |-> seed.job_id,
     title |-> IF p.h1 # <<>> THEN p.h1 ELSE seed.title,
     company |-> p.employer,
     location |-> p.location,
     description |-> Truncate(p.body, DescriptionCap),
     url |-> seed.url]

\* an _enrich_job whose try block has no except clause
EnrichJobReraises ==
    /\ pc = "enrich"
    /\ \/ /\ Raise("PlaywrightError")
          /\ trail' = [trail EXCEPT !.enrichError = "new_page"]
          /\ UNCHANGED job
       \/ /\ Raise("PlaywrightError")
          /\ trail' = [trail EXCEPT !.enrichError = "scrape", !.enrichPage = "closed"]
          /\ UNCHANGED job
       \/ \E p \in ScrapedPages :
             /\ job' = Enriched(job, p)
             /\ trail' = [trail EXCEPT !.enriched = TRUE, !.enrichPage = "closed"]
             /\ pc' = "filter"
             /\ UNCHANGED error
    /\ UNCHANGED <<browser, closeCalls, tryEntered, loginVars, jobs, idx, results,
                   applied_or_ready, step, uploaded_resume, envVars>>

\* _enrich_job: new_page is outside its try block; an error inside returns the
\* seed; the finally clause closes the page on both ways out
EnrichJob ==
    /\ pc = "enrich"
    /\ \/ /\ Raise("PlaywrightError")
          /\ trail' = [trail EXCEPT !.enrichError = "new_page"]
          /\ UNCHANGED job
       \/ /\ pc' = "filter"
          /\ trail' = [trail EXCEPT !.enriched = TRUE, !.enrichError = "scrape",
                                    !.enrichPage = "closed"]
          /\ UNCHANGED <<job, error>>
       \/ \E p \in ScrapedPages :
             /\ job' = Enriched(job, p)
             /\ trail' = [trail EXCEPT !.enriched = TRUE, !.enrichPage = "closed"]
             /\ pc' = "filter"
             /\ UNCHANGED error
    /\ UNCHANGED <<browser, closeCalls, tryEntered, loginVars, jobs, idx, results,
                   applied_or_ready, step, uploaded_resume, envVars>>

\* a filter step that forgets the skipped result
FilterJobDropsResult ==
    /\ pc = "filter"
    /\ IF MatchesFilters(job, cfg.filters)
       THEN /\ pc' = "apply_open"
            /\ trail' = [trail EXCEPT !.passed = TRUE]
       ELSE /\ pc' = "loop"
            /\ UNCHANGED trail
    /\ UNCHANGED <<browser, closeCalls, tryEntered, error, loginVars, jobs, idx, job,
                   results, applied_or_ready, step, uploaded_resume, envVars>>

\* a filter step whose verdict is not acted upon
FilterJobAppliesAnyway ==
    /\ pc = "filter"
    /\ pc' = "apply_open"
    /\ trail' = [trail EXCEPT !.passed = MatchesFilters(job, cfg.filters)]
    /\ UNCHANGED <<browser, closeCalls, tryEntered, error, loginVars, jobs, idx, job,
                   results, applied_or_ready, step, uploaded_resume, envVars>>

\* "if not self._matches_filters(job): results.append(skipped); continue"
FilterJob ==
    /\ pc = "filter"
    /\ IF MatchesFilters(job, cfg.filters)
       THEN /\ pc' = "apply_open"
            /\ trail' = [trail EXCEPT !.passed = TRUE]
            /\ UNCHANGED results
       ELSE /\ results' = Append(results, Result(job, "skipped", "filter_mismatch"))
            /\ pc' = "loop"
            /\ UNCHANGED trail
    /\ UNCHANGED <<browser, closeCalls, tryEntered, error, loginVars, jobs, idx, job,
                   applied_or_ready, step, uploaded_resume, envVars>>

\* _apply_to_job returns r (its finally clause closes the page, its locals are
\* gone); run() appends it
Return(r) ==
    /\ results' = Append(results, r)
    /\ step' = 0
    /\ uploaded_resume' = FALSE
    /\ pc' = "count"

\* an except clause that lets the exception go on to run()
ApplyHandlerReraises(exc) ==
    /\ Raise("PlaywrightError")
    /\ UNCHANGED <<results, step, uploaded_resume>>

\* the except clause of _apply_to_job: _save_failure_html (which swallows its own
\* errors), then a failed result with reason str(exc)
ApplyHandler(exc) ==
    /\ Return(Result(job, "failed", exc))
    /\ UNCHANGED error

Closed(t) == [t EXCEPT !.pageOpen = FALSE]

\* context.new_page() and set_default_timeout, before the try block of _apply_to_job
ApplyOpen ==
    /\ pc = "apply_open"
    /\ \/ Raise("PlaywrightError") /\ UNCHANGED <<trail, step, uploaded_resume>>
       \/ /\ pc' = "apply_start"
          /\ trail' = [trail EXCEPT !.pageOpen = TRUE]
          /\ uploaded_resume' = FALSE
          /\ step' = 0
          /\ UNCHANGED error
    /\ UNCHANGED <<browser, closeCalls, tryEntered, loginVars, loopVars, envVars>>

\* page.goto, wait_for_timeout, then "if not self._click_apply(page): return skipped"
ApplyStart ==
    /\ pc = "apply_start"
    /\ \/ /\ ApplyHandler("Timeout 25000ms exceeded.")
          /\ trail' = Closed([trail EXCEPT !.raised = "goto"])
       \/ \E buttons \in ApplyButtonLists, link \in ApplyLinks :
             IF ClickApply(buttons, link)
             THEN /\ pc' = "build_resume"
                  /\ trail' = [trail EXCEPT !.applyClicked = TRUE]
                  /\ UNCHANGED <<results, error, step, uploaded_resume>>
             ELSE /\ Return(Result(job, "skipped", "apply_button_not_found"))
                  /\ trail' = Closed(trail)
                  /\ UNCHANGED error
    /\ UNCHANGED <<browser, closeCalls, tryEntered, loginVars, jobs, idx, job,
                   applied_or_ready, envVars>>

\* resume_path = self.resume_builder.build(...)
BuildResume ==
    /\ pc = "build_resume"
    /\ \/ /\ ApplyHandler("Resume template not found")
          /\ trail' = Closed([trail EXCEPT !.raised = "resume"])
       \/ /\ pc' = "apply_fill"
          /\ trail' = [trail EXCEPT !.resumeBuilt = @ + 1]
          /\ UNCHANGED <<results, error, step, uploaded_resume>>
    /\ UNCHANGED <<browser, closeCalls, tryEntered, loginVars, jobs, idx, job,
                   applied_or_ready, envVars>>

\* a loop with one pass too many
LoopContinuesOneMore(n) == n <= StepCap

\* "for _ in range(14)" has passes left
LoopContinues(n) == n < StepCap

\* a pass that tries the upload whatever the earlier passes did
TriesUploadAlways(uploaded) == TRUE

\* "if not uploaded_resume:"
TriesUpload(uploaded) == ~uploaded

\* the first half of a pass of the apply loop: the upload (while none succeeded)
\* and _fill_visible_fields
ApplyFill ==
    /\ pc = "apply_fill"
    /\ LoopContinues(step)
    /\ \E uploaders \in UploaderLists :
          LET tries == TriesUpload(uploaded_resume)
              up == tries /\ UploadResumeIfVisible(uploaders)
              t == [trail EXCEPT !.uploads = IF up THEN @ + 1 ELSE @,
                                 !.uploadTried = tries]
          IN  \/ /\ ApplyHandler("Timeout 25000ms exceeded.")
                 /\ trail' = Closed([t EXCEPT !.raised = "fill"])
              \/ /\ pc' = "apply_buttons"
                 /\ step' = step + 1
                 /\ uploaded_resume' = (uploaded_resume \/ up)
                 /\ trail' = t
                 /\ UNCHANGED <<results, error>>
    /\ UNCHANGED <<browser, closeCalls, tryEntered, loginVars, jobs, idx, job,
                   applied_or_ready, envVars>>

\* the second half of a pass: _has_submit_button, then the dry-run stop or
\* _click_submit, else _click_next_step and the wait
ApplyButtons ==
    /\ pc = "apply_buttons"
    /\ \/ /\ ApplyHandler("Timeout 25000ms exceeded.")
          /\ trail' = Closed([trail EXCEPT !.raised = "buttons"])
       \/ \E page \in ButtonOutcomes, waitOk \in BOOLEAN :
             IF page.has_submit
             THEN IF StopsBeforeSubmit(cfg.application)
                  THEN /\ waitOk
                       /\ Return(Result(job, "dry_run_ready", "submit_button_reached"))
                       /\ trail' = Closed([trail EXCEPT !.submitSeen = TRUE])
                       /\ UNCHANGED error
                  ELSE IF page.submit = NoButton
                  THEN /\ waitOk
                       /\ ApplyHandler("Submit button not clickable")
                       /\ trail' = Closed([trail EXCEPT !.submitSeen = TRUE,
                                                        !.raised = "submit"])
                  ELSE /\ trail' = Closed([trail EXCEPT
                              !.submitSeen = TRUE,
                              !.submitClicks = @ + 1,
                              !.submitLabeledClicked = TRUE,
                              !.raised = IF waitOk THEN @ ELSE "wait"])
                       /\ IF waitOk
                          THEN Return(Result(job, "applied", "")) /\ UNCHANGED error
                          ELSE ApplyHandler("Timeout 25000ms exceeded.")
             ELSE IF page.next = NoButton
             THEN /\ waitOk
                  /\ Return(Result(job, "failed", "unable_to_reach_submit"))
                  /\ trail' = Closed([trail EXCEPT !.exit = "no_next"])
                  /\ UNCHANGED error
             ELSE IF waitOk
             THEN /\ pc' = "apply_fill"
                  /\ trail' = [trail EXCEPT !.submitLabeledClicked =
                                   @ \/ SubmitLabeled(page.next)]
                  /\ UNCHANGED <<results, error, step, uploaded_resume>>
             ELSE /\ ApplyHandler("Timeout 25000ms exceeded.")
                  /\ trail' = Closed([trail EXCEPT
                         !.submitLabeledClicked = @ \/ SubmitLabeled(page.next),
                         !.raised = "wait"])
    /\ UNCHANGED <<browser, closeCalls, tryEntered, loginVars, jobs, idx, job,
                   applied_or_ready, envVars>>

\* range(14) is exhausted: the return after the loop
ApplyExhausted ==
    /\ pc = "apply_fill"
    /\ ~LoopContinues(step)
    /\ Return(Result(job, "failed", "unable_to_reach_submit"))
    /\ trail' = Closed([trail EXCEPT !.exit = "cap"])
    /\ UNCHANGED <<browser, closeCalls, tryEntered, error, loginVars, jobs, idx, job,
                   applied_or_ready, envVars>>

\* "if result.status in {...}: applied_or_ready += 1" (and the pause)
CountReady ==
    /\ pc = "count"
    /\ applied_or_ready' =
          IF results[Len(results)].status \in ReadyStatuses
          THEN applied_or_ready + 1 ELSE applied_or_ready
    /\ pc' = "loop"
    /\ UNCHANGED <<browser, closeCalls, tryEntered, error, loginVars, jobs, idx, job,
                   results, applyVars, envVars>>

\* a close() that runs only when the try block ended normally
FinallyOnSuccessOnly ==
    /\ pc = "finally"
    /\ IF error = NoError
       THEN browser' = "closed" /\ closeCalls' = closeCalls + 1
       ELSE UNCHANGED <<browser, closeCalls>>
    /\ pc' = "pw_exit"
    /\ UNCHANGED <<tryEntered, error, loginVars, loopVars, applyVars, envVars>>

\* "finally: browser.close()"
Finally ==
    /\ pc = "finally"
    /\ browser' = "closed"
    /\ closeCalls' = closeCalls + 1
    /\ pc' = "pw_exit"
    /\ UNCHANGED <<tryEntered, error, loginVars, loopVars, applyVars, envVars>>

\* the end of "with sync_playwright() as playwright": the driver stops, and a
\* browser still open goes with it; an exception goes on to the caller
PlaywrightExit ==
    /\ pc = "pw_exit"
    /\ browser' = IF browser = "open" THEN "closed" ELSE browser
    /\ pc' = IF error = NoError THEN "write" ELSE "fatal"
    /\ UNCHANGED <<closeCalls, tryEntered, error, loginVars, loopVars, applyVars, envVars>>

\* a log opened with "a": the lines go behind what the file held
WriteResultsAppending ==
    /\ pc = "write"
    /\ logFile' = [content |-> logFile.content \o JsonLines(results),
                   writes |-> logFile.writes + 1]
    /\ pc' = "done"
    /\ UNCHANGED <<cfg, arg, ret, phase, browser, closeCalls, tryEntered, error,
                   loginVars, loopVars, applyVars>>

\* self._write_results(results): the file is opened with "w" and gets one line
\* per result
WriteResults ==
    /\ pc = "write"
    /\ logFile' = [content |-> JsonLines(results), writes |-> logFile.writes + 1]
    /\ pc' = "done"
    /\ UNCHANGED <<cfg, arg, ret, phase, browser, closeCalls, tryEntered, error,
                   loginVars, loopVars, applyVars>>

Next ==
    \/ NewBrowser
    \/ OpenLoginPage
    \/ AttemptLoginSubmission
    \/ WaitForLoginCompletion
    \/ LoginTimeout
    \/ GotoJobs
    \/ Discover
    \/ NextJob
    \/ EnrichJob
    \/ FilterJob
    \/ ApplyOpen
    \/ ApplyStart
    \/ BuildResume
    \/ ApplyFill
    \/ ApplyButtons
    \/ ApplyExhausted
    \/ CountReady
    \/ Finally
    \/ PlaywrightExit
    \/ WriteResults

Spec == Init /\ [][Next]_vars

----------------------------------------------------------------------------
(* QuestionAnswerer: alias resolution on its own                           *)

PromptSymbols == {"Visa", " ", "sponsorship"}

Prompts == SeqsUpTo(PromptSymbols, MaxPromptLen)

\* entries of prompt_aliases in the defaults file
AliasEntries ==
    { [key |-> "work_authorization", patterns |-> << <<>> >>],
      [key |-> "sponsorship", patterns |-> << <<"sponsorship">>, <<"Visa">> >>],
      [key |-> "visa", patterns |-> << <<"visa", " ", "sponsorship">> >>],
      [key |-> "", patterns |-> << <<"visa">> >>] }

AliasInputs ==
    [prompt_aliases : SeqsUpTo(AliasEntries, MaxRules), prompt : Prompts]

\* no run is in progress
RunIdle ==
    /\ cfg = CHOOSE c \in [application : ApplicationConfigs, filters : FilterConfigs] : TRUE
    /\ pc = "idle"
    /\ RunLocals

InitAlias ==
    /\ RunIdle
    /\ arg \in AliasInputs
    /\ ret = "none"
    /\ phase = "input"

\* key = self._alias_key_for_prompt(prompt_norm), as answer() calls it
AliasKeyCall ==
    /\ phase = "input"
    /\ ret' = AliasKeyForPrompt(LoadAliasRules(arg.prompt_aliases), PromptNorm(arg.prompt))
    /\ phase' = "called"
    /\ UNCHANGED <<runVars, arg>>

NextAlias == AliasKeyCall

SpecAlias == InitAlias /\ [][NextAlias]_vars

----------------------------------------------------------------------------
(* LLMClient (llm.py)                                                      *)

\* what a function call ends with: a returned value or an exception
Returned(v) == [raised |-> FALSE, value |-> v]

Raised(kind) == [raised |-> TRUE, value |-> <<>>, kind |-> kind]

\* what chat.completions.create does: a provider or network error, a message
\* whose content is None, or a message with text
ProviderError == [kind |-> "error", content |-> <<>>]

NoContent == [kind |-> "none", content |-> <<>>]

Reply(content) == [kind |-> "text", content |-> content]

\* a _chat whose try block has no except clause
ChatUnguarded(client, reply) ==
    IF ~client THEN Returned(<<>>)
    ELSE IF reply.kind = "error" THEN Raised("APIError")
    ELSE Returned(Strip(reply.content))

\* _chat: "" without a client, "" when the request raises, else the stripped
\* content ("" for None)
Chat(client, reply) ==
    IF ~client THEN Returned(<<>>)
    ELSE IF reply.kind = "error" THEN Returned(<<>>)
    ELSE Returned(Strip(reply.content))

\* lowered = {c.lower(): c for c in choices}: a later choice replaces an earlier
\* one with the same lowercase form
Lowered(choices, key) ==
    LET at == {i \in 1..Len(choices) : Lower(choices[i]) = key}
    IN  IF at = {} THEN <<>> ELSE <<choices[CHOOSE i \in at : \A k \in at : k <= i]>>

\* "for choice in choices: if choice.lower() in answer.lower(): return choice"
FirstChoiceIn(choices, answer) ==
    LET at == {i \in 1..Len(choices) : IsInfix(Lower(choices[i]), Lower(answer))}
    IN  IF at = {} THEN <<>> ELSE <<choices[CHOOSE i \in at : \A k \in at : i <= k]>>

InList(x, list) == \E i \in 1..Len(list) : list[i] = x

\* the choice matching of answer_application_question (lines 136-143)
PickChoice(answer, choices, default_answer) ==
    IF Lowered(choices, Lower(answer)) # <<>> THEN Lowered(choices, Lower(answer))[1]
    ELSE IF FirstChoiceIn(choices, answer) # <<>> THEN FirstChoiceIn(choices, answer)[1]
    ELSE IF InList(default_answer, choices) THEN default_answer
    ELSE choices[1]

\* the method without its "if not answer: return default_answer"
AnswerApplicationQuestionNoEmptyCheck(enabled, reply, default_answer, allowed_choices) ==
    IF ~enabled THEN Returned(default_answer)
    ELSE LET choices == allowed_choices
             chat == Chat(TRUE, reply)
         IN  IF chat.raised THEN chat
             ELSE LET answer == Strip(chat.value)
                  IN  IF choices # <<>>
                      THEN Returned(PickChoice(answer, choices, default_answer))
                      ELSE Returned(answer)

\* answer_application_question; allowed_choices None is the empty list
AnswerApplicationQuestion(enabled, reply, default_answer, allowed_choices) ==
    IF ~enabled THEN Returned(default_answer)
    ELSE LET choices == allowed_choices
             chat == Chat(TRUE, reply)
         IN  IF chat.raised THEN chat
             ELSE LET answer == Strip(chat.value)
                  IN  IF answer = <<>> THEN Returned(default_answer)
                      ELSE IF choices # <<>>
                      THEN Returned(PickChoice(answer, choices, default_answer))
                      ELSE Returned(answer)

ChoicePool ==
    { <<"Yes">>, <<"No">>, <<"no">>, <<"Yes", " ", "Remote">>, <<" ", "Yes">> }

ChoiceLists == SeqsUpTo(ChoicePool, MaxChoices)

Replies ==
    { ProviderError, NoContent, Reply(<<>>), Reply(<<" ", "\n">>),
      Reply(<<"yes">>), Reply(<<"No", "\n">>), Reply(<<"remote">>),
      Reply(<<"I", " ", "say", " ", "no">>), Reply(<<"maybe">>) }

DefaultAnswers == { <<>>, <<"No">>, <<"maybe">> }

LLMInputs ==
    [enabled : BOOLEAN, reply : Replies, default_answer : DefaultAnswers,
     allowed_choices : ChoiceLists]

InitLLM ==
    /\ RunIdle
    /\ arg \in LLMInputs
    /\ ret = "none"
    /\ phase = "input"

\* one call of LLMClient.answer_application_question
AnswerApplicationQuestionCall ==
    /\ phase = "input"
    /\ ret' = AnswerApplicationQuestion(arg.enabled, arg.reply, arg.default_answer,
                                        arg.allowed_choices)
    /\ phase' = "called"
    /\ UNCHANGED <<runVars, arg>>

NextLLM == AnswerApplicationQuestionCall

SpecLLM == InitLLM /\ [][NextLLM]_vars

----------------------------------------------------------------------------
(* QuestionAnswerer.answer (question_answerer.py)                          *)

NoDefaults == [k \in {} |-> <<>>]

\* _load_defaults: nothing when the file is missing; "or {}" makes an empty file
\* an empty mapping
LoadDefaults(file) ==
    IF ~file.exists
    THEN [defaults |-> NoDefaults, alias_rules |-> <<>>]
    ELSE [defaults |-> file.defaults,
          alias_rules |-> LoadAliasRules(file.prompt_aliases)]

\* self.defaults.get(key, "")
DefaultsGet(defaults, key) ==
    IF key \in DOMAIN defaults THEN defaults[key] ELSE <<>>

\* s[:n] of Python, n of either sign
PySlice(s, n) ==
    IF n >= 0 THEN SubSeq(s, 1, Min(Len(s), n))
    ELSE SubSeq(s, 1, Max(0, Len(s) + n))

\* [choice.strip() for choice in (choices or []) if choice.strip()]
NormalChoices(choices) ==
    LET kept == SelectSeq(choices, LAMBDA c : Strip(c) # <<>>)
    IN  [i \in 1..Len(kept) |-> Strip(kept[i])]

\* the table with its second row tested first
HeuristicDefaultVisaFirst(prompt) ==
    IF IsInfix(<<"sponsorship">>, prompt) \/ IsInfix(<<"visa">>, prompt) THEN <<"No">>
    ELSE IF \/ IsInfix(<<"authorized to work">>, prompt)
            \/ IsInfix(<<"work authorization">>, prompt) THEN <<"Yes">>
    ELSE IF IsInfix(<<"relocate">>, prompt) THEN <<"Yes">>
    ELSE <<>>

\* _heuristic_default
HeuristicDefault(prompt) ==
    IF \/ IsInfix(<<"authorized to work">>, prompt)
       \/ IsInfix(<<"work authorization">>, prompt) THEN <<"Yes">>
    ELSE IF IsInfix(<<"sponsorship">>, prompt) \/ IsInfix(<<"visa">>, prompt) THEN <<"No">>
    ELSE IF IsInfix(<<"relocate">>, prompt) THEN <<"Yes">>
    ELSE <<>>

\* "for choice in choices: if choice.lower() in answer.lower() or answer.lower()
\* in choice.lower(): return choice"
FirstChoiceEitherWay(choices, answer) ==
    LET at == {i \in 1..Len(choices) :
                  \/ IsInfix(Lower(choices[i]), Lower(answer))
                  \/ IsInfix(Lower(answer), Lower(choices[i]))}
    IN  IF at = {} THEN <<>> ELSE choices[CHOOSE i \in at : \A k \in at : i <= k]

\* a match that hands back the answer it was given
MatchChoiceRaw(answer, choices) ==
    IF answer = <<>> THEN <<>>
    ELSE IF Lowered(choices, Lower(answer)) # <<>> THEN answer
    ELSE IF FirstChoiceEitherWay(choices, answer) # <<>> THEN answer
    ELSE <<>>

\* _match_choice ("" when nothing matches)
MatchChoice(answer, choices) ==
    IF answer = <<>> THEN <<>>
    ELSE IF Lowered(choices, Lower(answer)) # <<>> THEN Lowered(choices, Lower(answer))[1]
    ELSE FirstChoiceEitherWay(choices, answer)

\* x without its "or y"
OrNothing(x, y) == x

\* x or y
Or(x, y) == IF x # <<>> THEN x ELSE y

\* the default answer of answer(): the alias key's default, else the heuristic
DefaultAnswer(qa, prompt_norm) ==
    LET key == AliasKeyForPrompt(qa.alias_rules, prompt_norm)
        default_answer == IF key # "" THEN DefaultsGet(qa.defaults, key) ELSE <<>>
    IN  IF default_answer = <<>> THEN HeuristicDefault(prompt_norm) ELSE default_answer

\* the last part of answer(): the input-type and keyword fallbacks
TypeFallback(qa, prompt_norm, input_type) ==
    IF input_type = "email" THEN DefaultsGet(qa.defaults, "email")
    ELSE IF input_type = "tel" THEN DefaultsGet(qa.defaults, "phone")
    ELSE IF IsInfix(<<"linkedin">>, prompt_norm) THEN DefaultsGet(qa.defaults, "linkedin")
    ELSE IF IsInfix(<<"github">>, prompt_norm) THEN DefaultsGet(qa.defaults, "github")
    ELSE IF IsInfix(<<"portfolio">>, prompt_norm) \/ IsInfix(<<"website">>, prompt_norm)
    THEN DefaultsGet(qa.defaults, "portfolio")
    ELSE <<>>

\* answer() from "if default_answer:" on
AfterLLM(qa, prompt_norm, input_type, choices, default_answer, max_answer_chars) ==
    IF default_answer # <<>>
    THEN IF choices # <<>>
         THEN Or(MatchChoice(default_answer, choices), choices[1])
         ELSE PySlice(default_answer, max_answer_chars)
    ELSE IF choices # <<>> THEN choices[1]
    ELSE TypeFallback(qa, prompt_norm, input_type)

\* QuestionAnswerer.answer; qa is the loaded state, llm the client and what its
\* request would bring
Answer(qa, llm, max_answer_chars, prompt, input_type, raw_choices) ==
    LET prompt_norm == PromptNorm(prompt)
        choices == NormalChoices(raw_choices)
        default_answer == DefaultAnswer(qa, prompt_norm)
        choice_answer == IF choices # <<>> THEN MatchChoice(default_answer, choices)
                         ELSE <<>>
        llm_answer == IF llm.enabled
                      THEN AnswerApplicationQuestion(TRUE, llm.reply, default_answer, choices)
                      ELSE Returned(<<>>)
    IN  IF choice_answer # <<>> THEN Returned(choice_answer)
        ELSE IF llm_answer.raised THEN llm_answer
        ELSE IF llm_answer.value # <<>>
        THEN IF choices # <<>>
             THEN Returned(Or(MatchChoice(llm_answer.value, choices), choices[1]))
             ELSE Returned(PySlice(llm_answer.value, max_answer_chars))
        ELSE Returned(AfterLLM(qa, prompt_norm, input_type, choices, default_answer,
                               max_answer_chars))

SponsorshipRule == [key |-> "sponsorship", patterns |-> << <<"sponsorship">>, <<"Visa">> >>]

VisaRule == [key |-> "visa", patterns |-> << <<"visa", " ", "sponsorship">> >>]

FileDefaults ==
    [k \in {"sponsorship", "visa", "email"} |->
        CASE k = "sponsorship" -> <<"no">>
          [] k = "visa" -> <<" ", "yes">>
          [] OTHER -> <<"me@example.com">>]

\* the defaults file: missing, empty, or with defaults and alias rules
DefaultsFiles ==
    { [exists |-> FALSE, defaults |-> NoDefaults, prompt_aliases |-> <<>>],
      [exists |-> TRUE, defaults |-> NoDefaults, prompt_aliases |-> <<>>],
      [exists |-> TRUE, defaults |-> FileDefaults,
       prompt_aliases |-> <<SponsorshipRule, VisaRule>>],
      [exists |-> TRUE, defaults |-> FileDefaults,
       prompt_aliases |-> <<VisaRule, SponsorshipRule>>] }

AnswerPrompts ==
    { <<>>, <<"Visa", " ", "sponsorship">>, <<"Authorized to work">>,
      <<" ", "work authorization", " ", "Visa", "\n">>, <<"Relocate">>,
      <<"linkedin">>, <<"other">> }

InputTypes == {"text", "email", "tel"}

LLMStates ==
    {[enabled |-> FALSE, reply |-> ProviderError]} \cup
    {[enabled |-> TRUE, reply |-> r] :
        r \in {ProviderError, Reply(<<>>), Reply(<<"yes">>), Reply(<<"maybe">>)}}

AnswerCharLimits == {-1, 0, DefaultQaMaxAnswerChars}

AnswerInputs ==
    [file : DefaultsFiles, llm : LLMStates, max_answer_chars : AnswerCharLimits,
     prompt : AnswerPrompts, input_type : InputTypes,
     choices : ChoiceLists \cup { << <<" ">>, <<"Yes">> >> }]

InitAnswer ==
    /\ RunIdle
    /\ arg \in AnswerInputs
    /\ ret = "none"
    /\ phase = "input"

\* QuestionAnswerer(qa_config, llm) is built, then answer() is called once
AnswerCall ==
    /\ phase = "input"
    /\ ret' = Answer(LoadDefaults(arg.file), arg.llm, arg.max_answer_chars,
                     arg.prompt, arg.input_type, arg.choices)
    /\ phase' = "called"
    /\ UNCHANGED <<runVars, arg>>

NextAnswer == AnswerCall

SpecAnswer == InitAnswer /\ [][NextAnswer]_vars

----------------------------------------------------------------------------
(* QuestionAnswerer.answer step by step: the request to the LLM is a step  *)
(* of its own, so that a state shows whether the LLM was asked.            *)

\* a test that never returns before the LLM
ShortCircuitsNever(choices, default_answer) == FALSE

\* "if choices: choice_answer = ...; if choice_answer: return choice_answer"
ShortCircuits(choices, default_answer) ==
    choices # <<>> /\ MatchChoice(default_answer, choices) # <<>>

\* answer() up to "if self.llm.enabled": it returns the matched choice, or
\* calls the LLM, or goes on to the fallbacks
AnswerToLLM ==
    /\ phase = "input"
    /\ LET qa == LoadDefaults(arg.file)
           prompt_norm == PromptNorm(arg.prompt)
           choices == NormalChoices(arg.choices)
           default_answer == DefaultAnswer(qa, prompt_norm)
       IN  IF ShortCircuits(choices, default_answer)
           THEN /\ ret' = Returned(MatchChoice(default_answer, choices))
                /\ phase' = "returned_without_llm"
           ELSE IF arg.llm.enabled
           THEN /\ ret' = ret
                /\ phase' = "llm"
           ELSE /\ ret' = Returned(AfterLLM(qa, prompt_norm, arg.input_type, choices,
                                            default_answer, arg.max_answer_chars))
                /\ phase' = "returned_without_llm"
    /\ UNCHANGED <<runVars, arg>>

\* answer_application_question returns, and answer() ends with what it gave
\* or with the fallbacks
LLMReturns ==
    /\ phase = "llm"
    /\ LET qa == LoadDefaults(arg.file)
           prompt_norm == PromptNorm(arg.prompt)
           choices == NormalChoices(arg.choices)
           default_answer == DefaultAnswer(qa, prompt_norm)
           llm_answer == AnswerApplicationQuestion(TRUE, arg.llm.reply, default_answer,
                                                   choices)
       IN  ret' = IF llm_answer.raised THEN llm_answer
                  ELSE IF llm_answer.value # <<>>
                  THEN IF choices # <<>>
                       THEN Returned(Or(MatchChoice(llm_answer.value, choices), choices[1]))
                       ELSE Returned(PySlice(llm_answer.value, arg.max_answer_chars))
                  ELSE Returned(AfterLLM(qa, prompt_norm, arg.input_type, choices,
                                         default_answer, arg.max_answer_chars))
    /\ phase' = "returned_after_llm"
    /\ UNCHANGED <<runVars, arg>>

NextAnswerSteps ==
    \/ AnswerToLLM
    \/ LLMReturns

SpecAnswerSteps == InitAnswer /\ [][NextAnswerSteps]_vars

----------------------------------------------------------------------------
(* _fill_radio_inputs (handshake_bot.py): the pass over one radio group.   *)
(* A radio is [label, visible, checked]; its label is what                  *)
(* _prompt_for_input reads for it.                                          *)

\* _radio_group_has_checked
RadioGroupHasChecked(group) == \E i \in 1..Len(group) : group[i].checked

\* _radio_group_labels: the labels of the visible radios, in group order
RadioGroupLabels(group) ==
    LET shown == SelectSeq(group, LAMBDA radio : radio.visible)
    IN  [i \in 1..Len(shown) |-> shown[i].label]

\* _best_choice: the code of _match_choice over the options
BestChoice(answer, options) == MatchChoice(answer, options)

\* options.index(selected) if selected in options else 0, counted from 1
OptionIndex(selected, options) ==
    IF InList(selected, options)
    THEN CHOOSE i \in 1..Len(options) :
            options[i] = selected /\ \A k \in 1..(i - 1) : options[k] # selected
    ELSE 1

\* group.nth(index).check(force=True): the radio becomes the checked one of
\* its group
CheckNth(group, index) ==
    [i \in 1..Len(group) |-> [group[i] EXCEPT !.checked = (i = index)]]

\* the body of "for name in names" for one group; check_ok is whether check()
\* goes through
FillRadioGroup(group, qa, llm, prompt, check_ok) ==
    IF RadioGroupHasChecked(group) THEN group
    ELSE LET options == RadioGroupLabels(group)
         IN  IF options = <<>> THEN group
             ELSE LET answer == Answer(qa, llm, DefaultQaMaxAnswerChars, prompt,
                                       "radio", options).value
                      selected == IF answer # <<>> THEN BestChoice(answer, options)
                                  ELSE options[1]
                      index == OptionIndex(selected, options)
                  IN  IF check_ok THEN CheckNth(group, index) ELSE group

Radios == [label : { <<"Yes">>, <<"No">> }, visible : BOOLEAN, checked : BOOLEAN]

RadioGroups == SeqsUpTo(Radios, MaxRadios) \ { <<>> }

RadioPrompts == { <<"Visa", " ", "sponsorship">>, <<"other">> }

RadioLLMStates ==
    { [enabled |-> FALSE, reply |-> ProviderError],
      [enabled |-> TRUE, reply |-> Reply(<<"yes">>)],
      [enabled |-> TRUE, reply |-> Reply(<<"No", "\n">>)] }

RadioInputs ==
    [group : RadioGroups, prompt : RadioPrompts, llm : RadioLLMStates, check_ok : BOOLEAN]

\* the answerer of a bot without a defaults file
MissingDefaultsFile == [exists |-> FALSE, defaults |-> NoDefaults, prompt_aliases |-> <<>>]

InitRadio ==
    /\ RunIdle
    /\ arg \in RadioInputs
    /\ ret = "none"
    /\ phase = "input"

\* one pass of _fill_radio_inputs over a page with one radio group
FillRadioInputsCall ==
    /\ phase = "input"
    /\ ret' = FillRadioGroup(arg.group, LoadDefaults(MissingDefaultsFile), arg.llm,
                             arg.prompt, arg.check_ok)
    /\ phase' = "called"
    /\ UNCHANGED <<runVars, arg>>

NextRadio == FillRadioInputsCall

SpecRadio == InitRadio /\ [][NextRadio]_vars

----------------------------------------------------------------------------
(* _fill_text_inputs (handshake_bot.py)                                    *)
(* A field is [visible, disabled, value, prompt, fill_ok]: what the probes  *)
(* and _prompt_for_input read for it, and whether fill() goes through.      *)

\* a pass that looks at visibility only
SkipsHiddenOnly(field) == ~field.visible

\* the three "continue" before the answerer is asked
SkipsField(field) ==
    \/ ~field.visible
    \/ field.disabled
    \/ Strip(field.value) # <<>>

\* the answer asked for a field (choices=[])
FieldAnswer(field, qa, llm) ==
    Answer(qa, llm, DefaultQaMaxAnswerChars, field.prompt, "text", <<>>).value

\* the body of the for loop for one field
FillTextField(field, qa, llm) ==
    IF SkipsField(field) THEN field
    ELSE LET answer == FieldAnswer(field, qa, llm)
         IN  IF answer = <<>> THEN field
             ELSE IF field.fill_ok THEN [field EXCEPT !.value = answer]
             ELSE field

\* _fill_text_inputs: every field in page order; an exception of fill() is
\* caught inside the loop
FillTextInputs(fields, qa, llm) ==
    [i \in 1..Len(fields) |-> FillTextField(fields[i], qa, llm)]

TextFields ==
    [visible : BOOLEAN, disabled : BOOLEAN, value : { <<>>, <<" ">>, <<"x">> },
     prompt : { <<"Visa", " ", "sponsorship">>, <<"other">> }, fill_ok : BOOLEAN]

TextInputs ==
    [fields : SeqsUpTo(TextFields, MaxFields),
     llm : { [enabled |-> FALSE, reply |-> ProviderError],
             [enabled |-> TRUE, reply |-> Reply(<<"maybe">>)] }]

InitText ==
    /\ RunIdle
    /\ arg \in TextInputs
    /\ ret = "none"
    /\ phase = "input"

\* one pass of _fill_text_inputs over the fields of a page
FillTextInputsCall ==
    /\ phase = "input"
    /\ ret' = FillTextInputs(arg.fields, LoadDefaults(MissingDefaultsFile), arg.llm)
    /\ phase' = "called"
    /\ UNCHANGED <<runVars, arg>>

NextText == FillTextInputsCall

SpecText == InitText /\ [][NextText]_vars

----------------------------------------------------------------------------
(* load_config (settings.py) and main (cli.py)                             *)
(* A YAML value is a tagged record: a missing key, null, a boolean, an     *)
(* integer, a string, or a mapping with one field per key the code reads.  *)

Absent == [t |-> "absent"]

Null == [t |-> "null"]

YBool(b) == [t |-> "bool", b |-> b]

YInt(n) == [t |-> "int", n |-> n]

YStr(str) == [t |-> "str", s |-> str]

\* truth value of a YAML value in Python (a missing key reads as None)
Truthy(v) ==
    CASE v.t = "bool" -> v.b
      [] v.t = "int" -> v.n # 0
      [] v.t = "str" -> v.s # ""
      [] v.t = "map" -> TRUE
      [] OTHER -> FALSE

\* int(v): TypeError for None, ValueError for text that is no number
IntOfText(str) == CASE str = "7" -> 7 [] str = "0" -> 0 [] OTHER -> -1

PyInt(v) ==
    CASE v.t = "int" -> Returned(v.n)
      [] v.t = "bool" -> Returned(IF v.b THEN 1 ELSE 0)
      [] v.t = "str" -> IF v.s \in {"7", "0"} THEN Returned(IntOfText(v.s))
                        ELSE Raised("ValueError")
      [] OTHER -> Raised("TypeError")

\* str(v)
PyStr(v) ==
    CASE v.t = "str" -> v.s
      [] v.t = "int" -> IF v.n = 0 THEN "0" ELSE "7"
      [] v.t = "bool" -> IF v.b THEN "True" ELSE "False"
      [] OTHER -> "None"

\* section.get(key) without a default
GetOrNone(section, key, default) ==
    IF section[key].t = "absent" THEN Null ELSE section[key]

\* section.get(key, default)
GetOr(section, key, default) ==
    IF section[key].t = "absent" THEN default ELSE section[key]

NoBrowser == [t |-> "map", headless |-> Absent]

NoApplication ==
    [t |-> "map", dry_run |-> Absent, auto_submit |-> Absent, max_applications |-> Absent]

NoHandshake == [t |-> "map", email |-> Absent, password |-> Absent]

\* raw.get(name, {}) or {}
SectionOr(section, empty) == IF Truthy(section) THEN section ELSE empty

\* the test with its second half missing
CredentialsMissingEmailOnly(hs) == ~Truthy(hs.email)

\* "if not hs.get("email") or not hs.get("password")"
CredentialsMissing(hs) == ~Truthy(hs.email) \/ ~Truthy(hs.password)

\* AutomationConfig(...) of load_config, from the sections
BuildConfig(hs, browser_raw, app_raw) ==
    LET max_applications ==
            PyInt(GetOr(app_raw, "max_applications", YInt(DefaultAppMaxApplications)))
    IN  IF max_applications.raised THEN max_applications
        ELSE Returned(
            [handshake |-> [email |-> PyStr(hs.email), password |-> PyStr(hs.password)],
             browser |-> [headless |-> Truthy(GetOr(browser_raw, "headless", YBool(FALSE)))],
             application |->
                [dry_run |-> Truthy(GetOr(app_raw, "dry_run", YBool(TRUE))),
                 auto_submit |-> Truthy(GetOr(app_raw, "auto_submit", YBool(FALSE))),
                 max_applications |-> max_applications.value]])

\* load_config; a handshake section that is no mapping has no get()
LoadConfig(file) ==
    IF ~file.exists THEN Raised("FileNotFoundError")
    ELSE IF file.handshake.t = "absent" THEN Raised("ValueError")
    ELSE LET hs == SectionOr(file.handshake, NoHandshake)
         IN  IF hs.t # "map" THEN Raised("AttributeError")
             ELSE IF CredentialsMissing(hs) THEN Raised("ValueError")
             ELSE BuildConfig(hs, SectionOr(file.browser, NoBrowser),
                              SectionOr(file.application, NoApplication))

NoArg == [t |-> "none"]

\* an override that tests the number for truth
OverridesTruthyMax(config, args) ==
    [config EXCEPT
        !.application.dry_run = IF args.dry_run THEN TRUE ELSE @,
        !.application.auto_submit = IF args.dry_run THEN FALSE ELSE @,
        !.application.max_applications =
            IF args.max_applications.t = "int" /\ args.max_applications.n # 0
            THEN args.max_applications.n ELSE @,
        !.browser.headless = IF args.headless THEN TRUE ELSE @]

\* the overrides of main (cli.py lines 65-71)
Overrides(config, args) ==
    [config EXCEPT
        !.application.dry_run = IF args.dry_run THEN TRUE ELSE @,
        !.application.auto_submit = IF args.dry_run THEN FALSE ELSE @,
        !.application.max_applications =
            IF args.max_applications.t # "none" THEN args.max_applications.n ELSE @,
        !.browser.headless = IF args.headless THEN TRUE ELSE @]

HandshakeSections ==
    {Absent, Null, YStr("me@example.com")} \cup
    {[t |-> "map", email |-> e, password |-> pw] :
        e \in {Absent, Null, YStr(""), YStr("me@example.com")},
        pw \in {Absent, YStr(""), YStr("secret"), YInt(7)}}

BrowserSections ==
    {Absent, Null} \cup
    {[t |-> "map", headless |-> h] : h \in {Absent, YBool(FALSE), YBool(TRUE)}}

ApplicationSections ==
    {Absent, Null} \cup
    {[t |-> "map", dry_run |-> d, auto_submit |-> a, max_applications |-> m] :
        d \in {Absent, Null, YBool(FALSE), YBool(TRUE), YStr("false")},
        a \in {Absent, YBool(TRUE)},
        m \in {Absent, Null, YInt(7), YInt(0), YStr("7"), YStr("many")}}

ConfigFiles ==
    {[exists |-> FALSE, handshake |-> Absent, browser |-> Absent, application |-> Absent]}
    \cup [exists : {TRUE}, handshake : HandshakeSections, browser : BrowserSections,
          application : ApplicationSections]

CliArgs ==
    [dry_run : BOOLEAN, headless : BOOLEAN,
     max_applications : {NoArg, [t |-> "int", n |-> 0], [t |-> "int", n |-> 3]}]

InitMain ==
    /\ RunIdle
    /\ arg \in [file : ConfigFiles, args : CliArgs]
    /\ ret = "none"
    /\ phase = "input"

\* config = load_config(args.config)
LoadConfigCall ==
    /\ phase = "input"
    /\ ret' = LoadConfig(arg.file)
    /\ phase' = IF ret'.raised THEN "failed" ELSE "loaded"
    /\ UNCHANGED <<runVars, arg>>

\* the three "if args ..." statements of main
ApplyOverrides ==
    /\ phase = "loaded"
    /\ ret' = Returned(Overrides(ret.value, arg.args))
    /\ phase' = "overridden"
    /\ UNCHANGED <<runVars, arg>>

\* bot = HandshakeBot(config=config, ...)
ConstructBot ==
    /\ phase = "overridden"
    /\ ret' = [raised |-> FALSE, value |-> ret.value, bot |-> [config |-> ret.value]]
    /\ phase' = "constructed"
    /\ UNCHANGED <<runVars, arg>>

NextMain ==
    \/ LoadConfigCall
    \/ ApplyOverrides
    \/ ConstructBot

SpecMain == InitMain /\ [][NextMain]_vars

----------------------------------------------------------------------------
(* _safe_slug (resume_builder.py)                                          *)
(* A string is a sequence of runs [c, n]: the character c repeated n       *)
(* times, so that a value longer than the limit fits in a small state.     *)

IsAlnum(c) == c \in {"A", "a", "7"}

RunsLen(runs) == LET RECURSIVE Sum(_)
                     Sum(i) == IF i = 0 THEN 0 ELSE Sum(i - 1) + runs[i].n
                 IN  Sum(Len(runs))

\* re.sub(r"[^a-zA-Z0-9]+", "-", value): each maximal stretch of other
\* characters becomes one hyphen
SubNonAlnum(value) ==
    LET RECURSIVE Go(_, _)
        Go(i, acc) ==
            IF i > Len(value) THEN acc
            ELSE IF IsAlnum(value[i].c) THEN Go(i + 1, Append(acc, value[i]))
            ELSE IF acc # <<>> /\ acc[Len(acc)].c = "-" THEN Go(i + 1, acc)
            ELSE Go(i + 1, Append(acc, [c |-> "-", n |-> 1]))
    IN  Go(1, <<>>)

\* the slug with its hyphens left at both ends
KeepHyphens(runs) == runs

\* .strip("-")
StripHyphens(runs) ==
    LET RECURSIVE Left(_)
        Left(r) == IF r # <<>> /\ r[1].c = "-" THEN Left(Tail(r)) ELSE r
        RECURSIVE Right(_)
        Right(r) == IF r # <<>> /\ r[Len(r)].c = "-"
                    THEN Right(SubSeq(r, 1, Len(r) - 1)) ELSE r
    IN  Right(Left(runs))

\* .lower()
LowerRuns(runs) ==
    [i \in 1..Len(runs) |-> [runs[i] EXCEPT !.c = IF @ = "A" THEN "a" ELSE @]]

\* cleaned[:limit]
CutRuns(runs, limit) ==
    LET RECURSIVE Go(_, _, _)
        Go(i, room, acc) ==
            IF i > Len(runs) \/ room <= 0 THEN acc
            ELSE IF runs[i].n <= room
                 THEN Go(i + 1, room - runs[i].n, Append(acc, runs[i]))
                 ELSE Append(acc, [runs[i] EXCEPT !.n = room])
    IN  Go(1, limit, <<>>)

JobRuns == <<[c |-> "j", n |-> 1], [c |-> "o", n |-> 1], [c |-> "b", n |-> 1]>>

\* _safe_slug(value, limit)
SafeSlug(value, limit) ==
    LET cleaned == LowerRuns(StripHyphens(SubNonAlnum(value)))
        cut == CutRuns(cleaned, limit)
    IN  IF cut = <<>> THEN JobRuns ELSE cut

SlugChars == {"A", "a", "7", "-", "!", "e-acute"}

SlugRuns == [c : SlugChars, n : {1, SlugLimit - 1}]

SlugInputs == SeqsUpTo(SlugRuns, MaxSlugRuns)

InitSlug ==
    /\ RunIdle
    /\ arg \in SlugInputs
    /\ ret = "none"
    /\ phase = "input"

\* slug = _safe_slug(...)
SafeSlugCall ==
    /\ phase = "input"
    /\ ret' = SafeSlug(arg, SlugLimit)
    /\ phase' = "called"
    /\ UNCHANGED <<runVars, arg>>

NextSlug == SafeSlugCall

SpecSlug == InitSlug /\ [][NextSlug]_vars

----------------------------------------------------------------------------
(* _matches_filters on its own                                             *)

FilterJobs ==
    { [job_id |-> "1", title |-> t, company |-> <<"Acme">>, location |-> l,
       description |-> d, url |-> <<>>] :
        t \in { <<"SWE", " ", "Intern">>, <<"Senior">> },
        l \in { <<>>, <<"Remote">> },
        d \in { <<>>, <<"remote", " ", "senior">> } }

KeywordLists == SeqsUpTo({ <<"Intern">>, <<"senior">>, <<" ">> }, MaxKeywords)

LocationLists == SeqsUpTo({ <<"Remote">>, <<"\n">> }, MaxKeywords)

FilterInputs ==
    [job : FilterJobs,
     filters : [include_keywords : KeywordLists, exclude_keywords : KeywordLists,
                preferred_locations : LocationLists, remote_only : BOOLEAN]]

InitFilter ==
    /\ RunIdle
    /\ arg \in FilterInputs
    /\ ret = "none"
    /\ phase = "input"

\* self._matches_filters(job)
MatchesFiltersCall ==
    /\ phase = "input"
    /\ ret' = MatchesFilters(arg.job, arg.filters)
    /\ phase' = "called"
    /\ UNCHANGED <<runVars, arg>>

NextFilter == MatchesFiltersCall

SpecFilter == InitFilter /\ [][NextFilter]_vars

----------------------------------------------------------------------------
(* ResumeBuilder.build: the slugs of two jobs (resume_builder.py)          *)

\* the string a sequence of runs stands for, with equal neighbours merged
Canon(runs) ==
    LET RECURSIVE Go(_, _)
        Go(i, acc) ==
            IF i > Len(runs) THEN acc
            ELSE IF acc # <<>> /\ acc[Len(acc)].c = runs[i].c
            THEN Go(i + 1, [acc EXCEPT ![Len(acc)].n = @ + runs[i].n])
            ELSE Go(i + 1, Append(acc, runs[i]))
    IN  Go(1, <<>>)

Hyphen == <<[c |-> "-", n |-> 1]>>

\* slug = _safe_slug(f"{job.company}-{job.title}-{job.job_id}")
BuildSlug(j) ==
    Canon(SafeSlug(j.company \o Hyphen \o j.title \o Hyphen \o j.job_id, SlugLimit))

SlugJobs ==
    [company : { <<>>, <<[c |-> "A", n |-> 1]>>, <<[c |-> "A", n |-> SlugLimit - 1]>> },
     title : { <<[c |-> "a", n |-> 1]>>, <<[c |-> "a", n |-> SlugLimit - 1]>>,
               <<[c |-> "a", n |-> 1], [c |-> " ", n |-> 1], [c |-> "7", n |-> 1]>> },
     job_id : { <<[c |-> "7", n |-> 1]>>, <<[c |-> "7", n |-> 2]>> }]

InitBuild ==
    /\ RunIdle
    /\ arg \in [one : SlugJobs, two : SlugJobs]
    /\ ret = "none"
    /\ phase = "input"

\* build() is called for one job and then for the other
BuildCall ==
    /\ phase = "input"
    /\ ret' = [one |-> BuildSlug(arg.one), two |-> BuildSlug(arg.two)]
    /\ phase' = "called"
    /\ UNCHANGED <<runVars, arg>>

NextBuild == BuildCall

SpecBuild == InitBuild /\ [][NextBuild]_vars

----------------------------------------------------------------------------
(* Properties                                                              *)

ApplyPcs == {"apply_open", "apply_start", "build_resume", "apply_fill", "apply_buttons"}

EndPcs == {"write", "done", "fatal"}

\* results with a status that counts towards max_applications
ReadyCount(res) == Len(SelectSeq(res, LAMBDA r : r.status \in ReadyStatuses))

\* str(exc) of the exceptions the apply flow meets
ExceptionMessages ==
    {"Timeout 25000ms exceeded.", "Resume template not found", "Submit button not clickable"}

\* C1: with application.dry_run true, no submit-labeled control is clicked for a
\* job in any pass of the apply loop, and a job for which a visible submit-labeled
\* button was observed has the result status "dry_run_ready".
C1_DryRunNeverActivatesSubmit ==
    cfg.application.dry_run =>
        /\ ~trail.submitLabeledClicked
        /\ trail.submitSeen =>
              /\ Len(results) = idx
              /\ results[idx].status = "dry_run_ready"

\* C2 as stated: when the run ends without a run-fatal error, every job returned
\* by discovery has exactly one result.
C2_EveryDiscoveredJobHasOneResult ==
    pc \in {"write", "done"} =>
        /\ Len(results) = Len(jobs)
        /\ \A i \in 1..Len(jobs) : results[i].url = jobs[i].url

\* C2 amended: when the run ends without a run-fatal error, every discovered job
\* the loop took before the max_applications cap ended it has exactly one result,
\* in discovery order; jobs are left without a result only behind a reached cap.
C2_EveryJobTakenHasOneResult ==
    pc \in {"write", "done"} =>
        /\ Len(results) = idx
        /\ \A i \in 1..idx :
              /\ results[i].url = jobs[i].url
              /\ results[i].job_id = jobs[i].job_id
        /\ \A i, k \in 1..Len(results) : i # k => results[i].url # results[k].url
        /\ idx < Len(jobs) => applied_or_ready >= cfg.application.max_applications

C2_RunEndsBehindCap ==
    /\ pc = "done"
    /\ idx = 1
    /\ Len(jobs) = 2
    /\ Len(results) = 1

\* C3: an exception raised inside a job's apply flow becomes exactly one result
\* of that job with status "failed" and the exception's text as reason; it does
\* not leave _apply_to_job (run() sees no error), and the loop goes on: it ends
\* after such a job only when no discovered job is left.
C3_ApplyExceptionsBecomeFailedResults ==
    trail.raised # "none" =>
        /\ error = NoError
        /\ Len(results) = idx
        /\ results[idx].job_id = job.job_id
        /\ results[idx].url = job.url
        /\ results[idx].status = "failed"
        /\ results[idx].reason \in ExceptionMessages
        /\ \/ pc \in {"count", "loop"}
           \/ pc \in {"finally", "pw_exit", "write", "done"} /\ idx = Len(jobs)

C3_FailedJobThenNextJob ==
    /\ trail.raised = "submit"
    /\ pc = "loop"
    /\ idx < Len(jobs)

\* C4: at every point of a run the number of results with status "applied",
\* "ready_to_submit" or "dry_run_ready" is at most max(0, max_applications), and
\* a job is enriched, filtered or applied to only while that number is below
\* max_applications.
C4_ReadyCountWithinCap ==
    /\ ReadyCount(results) <= Max(0, cfg.application.max_applications)
    /\ pc # "count" => applied_or_ready = ReadyCount(results)
    /\ pc \in {"enrich", "filter"} \cup ApplyPcs =>
          ReadyCount(results) < cfg.application.max_applications

C4_CapStopsTheLoop ==
    /\ pc = "finally"
    /\ error = NoError
    /\ idx < Len(jobs)
    /\ cfg.application.max_applications = 1
    /\ ReadyCount(results) = 1

\* C5: no two postings in the list returned by one call of _discover_jobs have
\* the same job_id.
C5_JobIdsUnique ==
    \A i, k \in 1..Len(jobs) : i # k => jobs[i].job_id # jobs[k].job_id

\* C6 as stated: the login wait reads the URL at most 180 times, returns only on
\* an authenticated-looking URL, otherwise ends with a RuntimeError, and
\* discovery starts only after an authenticated-looking URL was read.
C6_WaitEndsOnlyWithRuntimeError ==
    /\ polls <= TimeoutSec
    /\ pc = "goto_jobs" => IsAuthenticatedUrl(url)
    /\ error.at = "login_wait" => error.kind = "RuntimeError"
    /\ pc \in {"discover", "loop"} => authObserved

\* C6 amended: the login wait reads the URL at most 180 times; it returns only in
\* a poll whose URL is authenticated-looking, and otherwise ends with a run-fatal
\* exception: RuntimeError (timeout, page closed) or the Playwright error that
\* _safe_wait or the resubmission lets through. Discovery, and everything after
\* it, happens only after an authenticated-looking URL was read by the wait.
C6_LoginGate ==
    /\ polls <= TimeoutSec
    /\ pc = "goto_jobs" => IsAuthenticatedUrl(url) /\ authObserved
    /\ error.at = "login_wait" =>
          /\ error.kind \in {"RuntimeError", "PlaywrightError"}
          /\ pc \in {"finally", "pw_exit", "fatal"}
          /\ jobs = <<>>
    /\ pc \in {"discover", "loop", "enrich", "filter", "count"} \cup ApplyPcs => authObserved
    /\ jobs # <<>> => authObserved

C6_ReturnsOnLastPoll ==
    /\ pc = "goto_jobs"
    /\ polls = TimeoutSec

\* C7: the apply loop of a job makes at most 14 passes; when it ends because the
\* passes are used up or no next/continue/review button could be clicked, no
\* submit button having been seen, the job's result is "failed" with reason
\* "unable_to_reach_submit" and run() sees no error.
C7_ApplyLoopBounded ==
    /\ step <= StepCap
    /\ trail.exit \in {"cap", "no_next"} =>
          /\ ~trail.submitSeen
          /\ error = NoError
          /\ pc # "fatal"
          /\ Len(results) = idx
          /\ results[idx] = Result(job, "failed", "unable_to_reach_submit")

C7_StepCapExhausted ==
    /\ trail.exit = "cap"
    /\ pc = "count"

\* C8: browser.close() is called at most once; when run() ends after the try
\* block was entered (normal end, login timeout, page closed, any other error of
\* login, discovery or the job loop) it was called exactly once, and a browser
\* that was launched is closed when run() ends.
C8_BrowserClosedOnce ==
    /\ closeCalls <= 1
    /\ pc \in EndPcs /\ browser # "none" => browser = "closed"
    /\ pc \in EndPcs \cup {"pw_exit"} /\ tryEntered =>
          /\ closeCalls = 1
          /\ browser = "closed"

C8_ClosedAfterLoginTimeout ==
    /\ pc = "fatal"
    /\ second = TimeoutSec
    /\ closeCalls = 1

\* C9: a job whose text fails the filters gets exactly one result, "skipped" with
\* reason "filter_mismatch", and nothing of the apply flow happens for it; the
\* apply flow of a job runs only after the job was enriched and passed the filters.
C9_FilterGatesApply ==
    /\ \/ pc \in ApplyPcs
       \/ trail.pageOpen
       \/ trail.applyClicked
       \/ trail.resumeBuilt > 0
       \/ trail.uploads > 0
       \/ step > 0
       => trail.enriched /\ trail.passed /\ MatchesFilters(job, cfg.filters)
    /\ trail.enriched /\ pc # "filter" /\ ~MatchesFilters(job, cfg.filters) =>
          /\ Len(results) = idx
          /\ results[idx] = Result(job, "skipped", "filter_mismatch")
          /\ [trail EXCEPT !.enrichError = "none"] =
                [NoTrail EXCEPT !.enriched = TRUE, !.enrichPage = "closed"]

C9_SkippedByFilter ==
    /\ pc = "loop"
    /\ trail.enriched
    /\ ~trail.passed
    /\ results[idx].reason = "filter_mismatch"

\* the rules (by position) with a pattern the normalized prompt contains
RulesContained(rules, prompt) ==
    {i \in 1..Len(rules) :
        \E k \in 1..Len(rules[i].patterns) : IsInfix(rules[i].patterns[k], prompt)}

\* the same, empty patterns left out
RulesContainedNonEmpty(rules, prompt) ==
    {i \in 1..Len(rules) :
        \E k \in 1..Len(rules[i].patterns) :
            rules[i].patterns[k] # <<>> /\ IsInfix(rules[i].patterns[k], prompt)}

KeyOfFirst(rules, hits) ==
    IF hits = {} THEN ""
    ELSE rules[CHOOSE i \in hits : \A k \in hits : i <= k].key

\* C10 as stated: the key returned is that of the first rule, in list order, with
\* a pattern contained in the normalized prompt; no key when there is none.
C10_FirstContainedRuleWins ==
    phase = "called" =>
        LET rules == LoadAliasRules(arg.prompt_aliases)
        IN  ret = KeyOfFirst(rules, RulesContained(rules, PromptNorm(arg.prompt)))

\* C10 amended: the key returned is that of the first rule, in list order, with a
\* non-empty pattern contained in the normalized prompt, whatever later rules
\* match; no key when no rule has such a pattern.
C10_FirstNonEmptyContainedRuleWins ==
    phase = "called" =>
        LET rules == LoadAliasRules(arg.prompt_aliases)
        IN  ret = KeyOfFirst(rules, RulesContainedNonEmpty(rules, PromptNorm(arg.prompt)))

C10_TwoRulesMatch ==
    /\ phase = "called"
    /\ Len(arg.prompt_aliases) = 2
    /\ RulesContainedNonEmpty(LoadAliasRules(arg.prompt_aliases),
                              PromptNorm(arg.prompt)) = {1, 2}
    /\ arg.prompt_aliases[1].key # arg.prompt_aliases[2].key
    /\ ret = arg.prompt_aliases[1].key

\* the model returned a non-empty answer
HasAnswer(a) == a.enabled /\ a.reply.kind = "text" /\ Strip(a.reply.content) # <<>>

\* C14: answer_application_question returns default_answer as it is whenever the
\* client is disabled, the request raises, or the reply is empty or only
\* whitespace, with or without choices; no exception reaches the caller.
C14_DefaultWhenNoAnswer ==
    phase = "called" =>
        /\ ~ret.raised
        /\ ~HasAnswer(arg) => ret.value = arg.default_answer

C14_ProviderErrorWithChoices ==
    /\ phase = "called"
    /\ arg.enabled
    /\ arg.reply = ProviderError
    /\ arg.allowed_choices # <<>>
    /\ arg.default_answer = <<"maybe">>
    /\ ret = Returned(<<"maybe">>)

\* a choice equal to the answer but for case, else the first choice contained in
\* the answer or containing it, else the default when it is a choice, else the
\* first choice
EitherWayChoices(answer, choices) ==
    {i \in 1..Len(choices) :
        \/ IsInfix(Lower(choices[i]), Lower(answer))
        \/ IsInfix(Lower(answer), Lower(choices[i]))}

\* C15: with choices and a non-empty model answer, the result is a choice equal
\* to the answer but for case if there is one, else the first choice contained
\* in the answer or containing it, else default_answer when it is one of the
\* choices, else the first choice; it is always one of the choices.
C15_ChoiceMatchedEitherWay ==
    phase = "called" /\ HasAnswer(arg) /\ arg.allowed_choices # <<>> =>
        LET choices == arg.allowed_choices
            answer == Strip(arg.reply.content)
            exact == {i \in 1..Len(choices) : Lower(choices[i]) = Lower(answer)}
            either == EitherWayChoices(answer, choices)
        IN  /\ ~ret.raised
            /\ InList(ret.value, choices)
            /\ IF exact # {} THEN \E i \in exact : ret.value = choices[i]
               ELSE IF either # {}
               THEN ret.value = choices[CHOOSE i \in either : \A k \in either : i <= k]
               ELSE IF InList(arg.default_answer, choices)
               THEN ret.value = arg.default_answer
               ELSE ret.value = choices[1]

\* the default answer answer() computes for arg
ArgDefault == DefaultAnswer(LoadDefaults(arg.file), PromptNorm(arg.prompt))

\* positions of the choices equal to the default answer but for case
Variants(choices, default_answer) ==
    {i \in 1..Len(choices) : Lower(choices[i]) = Lower(default_answer)}

\* C11 as stated: with a non-empty default answer and a choice list containing a
\* case-insensitive variant of it, answer() returns that choice exactly as it is
\* written in the list, whether or not the LLM is enabled.
C11_ReturnsChoiceAsWritten ==
    phase = "called" /\ ArgDefault # <<>> /\ Variants(arg.choices, ArgDefault) # {} =>
        /\ ~ret.raised
        /\ \E i \in Variants(arg.choices, ArgDefault) : ret.value = arg.choices[i]

\* C11 amended: with a non-empty default answer and a choice list that, once its
\* entries are trimmed and the blank ones dropped, contains a case-insensitive
\* variant of it, answer() returns that trimmed entry (the last such entry when
\* several differ only in case), whether or not the LLM is enabled.
C11_ReturnsTrimmedChoice ==
    phase = "called" /\ ArgDefault # <<>>
                     /\ Variants(NormalChoices(arg.choices), ArgDefault) # {} =>
        LET choices == NormalChoices(arg.choices)
            at == Variants(choices, ArgDefault)
        IN  /\ ~ret.raised
            /\ ret.value = choices[CHOOSE i \in at : \A k \in at : k <= i]

C11_VariantChosenWithLLM ==
    /\ phase = "called"
    /\ arg.llm.enabled
    /\ arg.llm.reply = Reply(<<"maybe">>)
    /\ ArgDefault = <<"no">>
    /\ arg.choices = << <<"Yes">>, <<"No">> >>
    /\ ret = Returned(<<"No">>)

NoDefaultsFile == ~arg.file.exists \/ arg.file.defaults = NoDefaults

InPrompt(token) == IsInfix(<<token>>, PromptNorm(arg.prompt))

\* C12 as stated: with an empty or missing defaults file, a prompt containing
\* "authorized to work" or "work authorization" yields "Yes", one containing
\* "sponsorship" or "visa" yields "No", one containing "relocate" yields "Yes",
\* and any other prompt yields "" when no choices are supplied.
C12_HeuristicTable ==
    phase = "called" /\ NoDefaultsFile =>
        /\ InPrompt("authorized to work") \/ InPrompt("work authorization") =>
              ret = Returned(<<"Yes">>)
        /\ InPrompt("sponsorship") \/ InPrompt("visa") => ret = Returned(<<"No">>)
        /\ InPrompt("relocate") => ret = Returned(<<"Yes">>)
        /\ /\ ~InPrompt("authorized to work") /\ ~InPrompt("work authorization")
           /\ ~InPrompt("sponsorship") /\ ~InPrompt("visa") /\ ~InPrompt("relocate")
           /\ arg.choices = <<>>
           => ret = Returned(<<>>)

\* C12 amended: with an empty or missing defaults file, the LLM disabled and no
\* non-blank choice supplied, answer() returns the first value of the heuristic
\* table that applies, cut to max_answer_chars: "Yes" for "authorized to work" or
\* "work authorization", else "No" for "sponsorship" or "visa", else "Yes" for
\* "relocate", else the empty string.
C12_HeuristicTableInOrder ==
    phase = "called" /\ NoDefaultsFile /\ ~arg.llm.enabled
                     /\ NormalChoices(arg.choices) = <<>> =>
        LET h == IF InPrompt("authorized to work") \/ InPrompt("work authorization")
                 THEN <<"Yes">>
                 ELSE IF InPrompt("sponsorship") \/ InPrompt("visa") THEN <<"No">>
                 ELSE IF InPrompt("relocate") THEN <<"Yes">>
                 ELSE <<>>
        IN  ret = Returned(PySlice(h, arg.max_answer_chars))

C12_AuthorizationBeforeVisa ==
    /\ phase = "called"
    /\ ~arg.file.exists
    /\ ~arg.llm.enabled
    /\ arg.choices = <<>>
    /\ InPrompt("work authorization")
    /\ InPrompt("visa")
    /\ ret = Returned(<<"Yes">>)

\* C13: answer() ends with a returned string (possibly empty), never with an
\* exception, for every prompt, input type and choice list and every LLM
\* outcome: client disabled, usable answer, empty answer, provider error.
C13_AnswerAlwaysReturns ==
    phase = "called" =>
        /\ ~ret.raised
        /\ ret.value \in Seq(STRING)

C13_ReturnsAfterProviderError ==
    /\ phase = "called"
    /\ arg.llm.enabled
    /\ arg.llm.reply = ProviderError
    /\ ~ret.raised
    /\ ret.value = <<>>

\* the file has a handshake mapping with a non-empty email and password
Blank(v) == v \in {Absent, Null, YStr("")}

HandshakeComplete(file) ==
    /\ file.exists
    /\ file.handshake.t = "map"
    /\ ~Blank(file.handshake.email)
    /\ ~Blank(file.handshake.password)

\* C16: load_config raises when the file is absent, when the handshake
\* section is absent, and when the email or the password is absent or empty;
\* main then stops before any override or bot.
C16_IncompleteConfigRaises ==
    (phase # "input" /\ ~HandshakeComplete(arg.file)) =>
        /\ phase = "failed"
        /\ ret.raised
        /\ ret.kind = (IF ~arg.file.exists THEN "FileNotFoundError"
                       ELSE IF arg.file.handshake.t = "str" THEN "AttributeError"
                       ELSE "ValueError")

\* an email with an empty password has been refused
C16_EmptyPasswordRaises ==
    /\ phase = "failed"
    /\ arg.file.exists
    /\ arg.file.handshake.t = "map"
    /\ arg.file.handshake.email = YStr("me@example.com")
    /\ arg.file.handshake.password = YStr("")
    /\ ret.kind = "ValueError"

\* the value the file gives a key, Absent when the section is not there
FileValue(section, key) == IF section.t = "map" THEN section[key] ELSE Absent

IsBool(x, v) == v.t = "bool" /\ x = v.b

IsInt(x, v) == v.t = "int" /\ x = v.n

\* C17 as stated: with a complete handshake load_config succeeds and every
\* optional field is the file's own value when the key is present and the
\* documented default otherwise.
C17_FileValueOrDefault ==
    (phase \in {"loaded", "failed"} /\ HandshakeComplete(arg.file)) =>
        /\ phase = "loaded"
        /\ LET headless == FileValue(arg.file.browser, "headless")
               dry_run == FileValue(arg.file.application, "dry_run")
               auto_submit == FileValue(arg.file.application, "auto_submit")
               max_applications == FileValue(arg.file.application, "max_applications")
           IN  /\ IF headless.t = "absent" THEN ret.value.browser.headless = FALSE
                   ELSE IsBool(ret.value.browser.headless, headless)
               /\ IF dry_run.t = "absent" THEN ret.value.application.dry_run = TRUE
                   ELSE IsBool(ret.value.application.dry_run, dry_run)
               /\ IF auto_submit.t = "absent" THEN ret.value.application.auto_submit = FALSE
                   ELSE IsBool(ret.value.application.auto_submit, auto_submit)
               /\ IF max_applications.t = "absent"
                   THEN ret.value.application.max_applications = DefaultAppMaxApplications
                   ELSE IsInt(ret.value.application.max_applications, max_applications)

\* C17, amended: with a complete handshake load_config raises exactly when
\* int() rejects the value of max_applications (null, or text that is no
\* number); otherwise it succeeds, every optional field whose key is present
\* is the file's value passed through the field's constructor (bool(), int(),
\* str()), and every field whose key or section is absent has the documented
\* default: headless false, dry_run true, auto_submit false,
\* max_applications 25.
C17_ConvertedFileValueOrDefault ==
    (phase \in {"loaded", "failed"} /\ HandshakeComplete(arg.file)) =>
        LET headless == FileValue(arg.file.browser, "headless")
            dry_run == FileValue(arg.file.application, "dry_run")
            auto_submit == FileValue(arg.file.application, "auto_submit")
            max_applications == FileValue(arg.file.application, "max_applications")
            rejected == \/ max_applications.t = "null"
                        \/ max_applications.t = "str" /\ max_applications.s \notin {"0", "7"}
        IN  /\ (phase = "failed") = rejected
            /\ phase = "failed" => ret.raised /\ ret.kind \in {"TypeError", "ValueError"}
            /\ phase = "loaded" =>
                /\ ret.value.handshake.email = PyStr(arg.file.handshake.email)
                /\ ret.value.handshake.password = PyStr(arg.file.handshake.password)
                /\ ret.value.browser.headless =
                      (IF headless.t = "absent" THEN FALSE ELSE Truthy(headless))
                /\ ret.value.application.dry_run =
                      (IF dry_run.t = "absent" THEN TRUE ELSE Truthy(dry_run))
                /\ ret.value.application.auto_submit =
                      (IF auto_submit.t = "absent" THEN FALSE ELSE Truthy(auto_submit))
                /\ ret.value.application.max_applications =
                      (IF max_applications.t = "absent" THEN DefaultAppMaxApplications
                       ELSE PyInt(max_applications).value)

\* a file with only the handshake section has loaded with every default
C17_OnlyHandshakeGivesDefaults ==
    /\ phase = "loaded"
    /\ arg.file.browser = Absent
    /\ arg.file.application = Absent
    /\ ret.value.browser.headless = FALSE
    /\ ret.value.application.dry_run = TRUE
    /\ ret.value.application.auto_submit = FALSE
    /\ ret.value.application.max_applications = DefaultAppMaxApplications

\* C18: the bot is constructed with the overridden configuration: --dry-run
\* makes dry_run true and auto_submit false, --max-applications N sets the
\* cap to N, --headless makes headless true, and a flag that is not given
\* leaves the value load_config read from the file.
C18_OverridesReachTheBot ==
    phase = "constructed" =>
        LET loaded == LoadConfig(arg.file).value
            config == ret.bot.config
            args == arg.args
        IN  /\ config.application.dry_run =
                  (IF args.dry_run THEN TRUE ELSE loaded.application.dry_run)
            /\ config.application.auto_submit =
                  (IF args.dry_run THEN FALSE ELSE loaded.application.auto_submit)
            /\ config.application.max_applications =
                  (IF args.max_applications = NoArg
                   THEN loaded.application.max_applications
                   ELSE args.max_applications.n)
            /\ config.browser.headless =
                  (IF args.headless THEN TRUE ELSE loaded.browser.headless)
            /\ config.handshake = loaded.handshake

\* --dry-run and --max-applications 0 over a file that asks to submit 7
C18_FlagsBeatTheFile ==
    /\ phase = "constructed"
    /\ arg.args.dry_run
    /\ arg.args.max_applications = [t |-> "int", n |-> 0]
    /\ ~arg.args.headless
    /\ arg.file.application.t = "map"
    /\ arg.file.application.dry_run = YBool(FALSE)
    /\ arg.file.application.auto_submit = YBool(TRUE)
    /\ arg.file.application.max_applications = YInt(7)
    /\ ret.bot.config.application.dry_run
    /\ ~ret.bot.config.application.auto_submit
    /\ ret.bot.config.application.max_applications = 0

\* C19: the slug is never empty, has at most 60 characters, holds only
\* lowercase letters, digits and hyphens, has no two hyphens in a row and no
\* hyphen at its start, and is "job" when the value has no letter or digit.
C19_SlugIsFilesystemSafe ==
    phase = "called" =>
        /\ ret # <<>>
        /\ RunsLen(ret) \in 1..SlugLimit
        /\ \A i \in 1..Len(ret) :
              /\ ret[i].n >= 1
              /\ ret[i].c \in {"a", "7", "j", "o", "b", "-"}
              /\ ret[i].c = "-" =>
                    /\ ret[i].n = 1
                    /\ i > 1
                    /\ ret[i - 1].c # "-"
        /\ (\A i \in 1..Len(arg) : ~IsAlnum(arg[i].c)) => ret = JobRuns

\* a long value with punctuation at its start, cut at the limit
C19_LongValueCut ==
    /\ phase = "called"
    /\ Len(arg) = 3
    /\ arg[1].c = "!"
    /\ arg[2] = [c |-> "A", n |-> SlugLimit - 1]
    /\ arg[3] = [c |-> "7", n |-> SlugLimit - 1]
    /\ RunsLen(ret) = SlugLimit
    /\ ret[1].c = "a"

\* C20: a run that ends without a fatal error writes the results log once,
\* after the job loop, and the log then holds one line per result in the
\* order the results were appended and nothing of what it held before; until
\* then, and in a fatal run, the log is as the run found it.
C20_LogWrittenOnceAfterLoop ==
    IF pc = "done"
    THEN /\ logFile.writes = 1
         /\ Len(logFile.content) = Len(results)
         /\ \A i \in 1..Len(results) : logFile.content[i] = JsonLine(results[i])
    ELSE /\ logFile.writes = 0
         /\ logFile.content = PriorLog

\* a log of two lines, a skipped job before one that went through the form
C20_TwoLinesInOrder ==
    /\ pc = "done"
    /\ Len(results) = 2
    /\ Len(logFile.content) = 2
    /\ logFile.content[1].status = "skipped"
    /\ logFile.content[2].status # "skipped"
    /\ logFile.content[1].url # logFile.content[2].url
    /\ logFile.content[2].company # <<>>

\* C21: a control with a submit label is clicked for a job only when dry_run
\* is false and auto_submit is true, _click_submit clicks at most once per
\* job, and a job gets the status "applied" only after that click went through.
C21_SubmitClickedOnlyWhenAllowed ==
    /\ trail.submitLabeledClicked =>
          ~cfg.application.dry_run /\ cfg.application.auto_submit
    /\ trail.submitClicks <= 1
    /\ (pc = "count" /\ results[Len(results)].status = "applied") =>
          /\ trail.submitClicks = 1
          /\ trail.raised = "none"

\* the non-blank entries of a keyword list that occur, lowercased, in the text
NonBlank(list) == {i \in 1..Len(list) : \E k \in 1..Len(list[i]) : ~IsSpace(list[i][k])}

Occurring(list, text) == {i \in NonBlank(list) : IsInfix(Lower(list[i]), text)}

\* C22: _matches_filters accepts a job exactly when, on the lowercased text
\* of title, company, location and description, the include list has no
\* non-blank keyword or one of them occurs, no non-blank exclude keyword
\* occurs, remote_only is false or "remote" occurs, and preferred_locations
\* has no non-blank entry or one of them occurs.
C22_FourDimensions ==
    phase = "called" =>
        LET f == arg.filters
            text == Lower(arg.job.title \o <<"\n">> \o arg.job.company \o <<"\n">>
                          \o arg.job.location \o <<"\n">> \o arg.job.description)
        IN  ret = ( /\ (NonBlank(f.include_keywords) = {}
                         \/ Occurring(f.include_keywords, text) # {})
                    /\ Occurring(f.exclude_keywords, text) = {}
                    /\ (~f.remote_only \/ IsInfix(<<"remote">>, text))
                    /\ (NonBlank(f.preferred_locations) = {}
                         \/ Occurring(f.preferred_locations, text) # {}) )

\* blank-only lists constrain nothing: a job whose text has no blank in it is
\* accepted under a blank include keyword and a blank preferred location
C22_BlankListsAccept ==
    /\ phase = "called"
    /\ arg.filters.include_keywords = << <<" ">> >>
    /\ arg.filters.exclude_keywords = << <<" ">>, <<"Intern">> >>
    /\ arg.filters.preferred_locations = << <<"\n">>, <<"\n">> >>
    /\ arg.filters.remote_only
    /\ arg.job.title = <<"Senior">>
    /\ arg.job.location = <<"Remote">>
    /\ ret = TRUE

\* the choices answer() works on, the default it computes, and the text the
\* model gave ("" when the client is off, the call failed or the reply is blank)
ArgChoices == NormalChoices(arg.choices)

LLMText ==
    IF arg.llm.enabled /\ arg.llm.reply.kind = "text"
    THEN Strip(arg.llm.reply.content) ELSE <<>>

\* the text is empty or neither contains nor is contained in any choice
MatchesNone(text, choices) ==
    \/ text = <<>>
    \/ \A i \in 1..Len(choices) :
          /\ ~IsInfix(Lower(choices[i]), Lower(text))
          /\ ~IsInfix(Lower(text), Lower(choices[i]))

NothingMatches == MatchesNone(ArgDefault, ArgChoices) /\ MatchesNone(LLMText, ArgChoices)

\* C23 as stated: with a non-blank choice the answer is one of the normalized
\* choices, and it is the first choice when neither the default nor the
\* model's reply matches a choice.
C23_MemberAndFirstChoice ==
    (phase = "called" /\ ArgChoices # <<>>) =>
        /\ ~ret.raised
        /\ InList(ret.value, ArgChoices)
        /\ NothingMatches => ret.value = ArgChoices[1]

\* C23, amended: with a non-blank choice the answer is one of the normalized
\* choices; when neither the default nor the model's reply matches a choice
\* it is the first choice if the model gave no text, and otherwise the last
\* choice that equals the first one up to letter case.
C23_MemberAndFirstChoiceUpToCase ==
    (phase = "called" /\ ArgChoices # <<>>) =>
        /\ ~ret.raised
        /\ InList(ret.value, ArgChoices)
        /\ NothingMatches =>
              IF LLMText = <<>> THEN ret.value = ArgChoices[1]
              ELSE LET same == {i \in 1..Len(ArgChoices) :
                                   Lower(ArgChoices[i]) = Lower(ArgChoices[1])}
                   IN  ret.value = ArgChoices[CHOOSE i \in same : \A k \in same : k <= i]

\* the model's reply matches no choice and there is no default
C23_FirstChoiceAsLastResort ==
    /\ phase = "called"
    /\ arg.llm.enabled
    /\ arg.llm.reply = Reply(<<"maybe">>)
    /\ ArgDefault = <<>>
    /\ arg.choices = << <<" ", "Yes">>, <<"No">> >>
    /\ ret.value = <<"Yes">>

\* C24: answer() asks the LLM at most once, and only when the client is
\* enabled and either there are no choices or the default answer matches none
\* of them; with choices of which the default matches one, it returns without
\* asking. Either way it returns what answer() returns as a whole.
C24_LLMAskedOnlyWithoutMatch ==
    /\ phase \in {"llm", "returned_after_llm"} =>
          /\ arg.llm.enabled
          /\ ArgChoices = <<>> \/ MatchesNone(ArgDefault, ArgChoices)
    /\ phase \in {"returned_without_llm", "returned_after_llm"} =>
          /\ ret = Answer(LoadDefaults(arg.file), arg.llm, arg.max_answer_chars,
                          arg.prompt, arg.input_type, arg.choices)
          /\ (phase = "returned_without_llm") =
                (~arg.llm.enabled
                 \/ (ArgChoices # <<>> /\ ~MatchesNone(ArgDefault, ArgChoices)))

\* an enabled client is left alone: the default "no" matches the choice "No"
C24_DefaultMatchSkipsLLM ==
    /\ phase = "returned_without_llm"
    /\ arg.llm.enabled
    /\ arg.llm.reply = Reply(<<"yes">>)
    /\ ArgDefault = <<"no">>
    /\ arg.choices = << <<"Yes">>, <<"No">> >>
    /\ ret = Returned(<<"No">>)

\* C25: for one job the resume is built at most once and only after the
\* apply control was clicked, an upload succeeds at most once, a pass tries
\* the upload exactly when no earlier pass of the job uploaded, and a pass
\* after a successful upload uploads nothing.
C25_ResumeOnceUploadOnce ==
    /\ [](/\ trail.resumeBuilt <= 1
          /\ trail.resumeBuilt = 1 => trail.applyClicked
          /\ trail.uploads <= 1
          /\ trail.uploads = 1 => trail.resumeBuilt = 1)
    /\ [][(pc = "apply_fill" /\ pc' = "apply_buttons") =>
             /\ trail'.uploadTried = ~uploaded_resume
             /\ uploaded_resume => trail'.uploads = trail.uploads /\ uploaded_resume']_vars

\* a second pass after the pass that uploaded: it does not try again
C25_NoUploadAfterSuccess ==
    /\ pc = "apply_buttons"
    /\ step = 2
    /\ uploaded_resume
    /\ ~trail.uploadTried
    /\ trail.uploads = 1
    /\ trail.resumeBuilt = 1

\* the option the pass chooses for a group: the option matching the
\* answerer's answer, the first option when the answer is empty or matches none
ChosenOption(group) ==
    LET options == RadioGroupLabels(group)
        answer == Answer(LoadDefaults(MissingDefaultsFile), arg.llm,
                         DefaultQaMaxAnswerChars, arg.prompt, "radio", options).value
    IN  IF answer # <<>> /\ BestChoice(answer, options) # <<>>
        THEN BestChoice(answer, options) ELSE options[1]

\* C26: a pass over a group with no checked radio and a visible one, whose
\* check() goes through, leaves exactly one radio checked, and its label is
\* the chosen option, whatever mix of visible and hidden radios the group
\* has; a group with a checked radio is left as it was.
C26_CheckedRadioIsTheChosenOne ==
    phase = "called" =>
        IF RadioGroupHasChecked(arg.group) THEN ret = arg.group
        ELSE (RadioGroupLabels(arg.group) # <<>> /\ arg.check_ok) =>
                \E i \in 1..Len(ret) :
                    /\ ret[i].checked
                    /\ \A k \in 1..Len(ret) : ret[k].checked => k = i
                    /\ ret[i].label = ChosenOption(arg.group)

\* C27: a pass leaves every field that is hidden, disabled or holds a
\* non-blank value as it was, leaves a field alone when the answerer gives the
\* empty string or fill() fails, and gives every other field its answer,
\* whatever happened to the fields before it.
C27_OnlyOpenEmptyFieldsFilled ==
    phase = "called" =>
        /\ Len(ret) = Len(arg.fields)
        /\ \A i \in 1..Len(arg.fields) :
              LET field == arg.fields[i]
                  answer == FieldAnswer(field, LoadDefaults(MissingDefaultsFile), arg.llm)
                  open == /\ field.visible
                          /\ ~field.disabled
                          /\ \A k \in 1..Len(field.value) : IsSpace(field.value[k])
              IN  IF open /\ answer # <<>> /\ field.fill_ok
                  THEN ret[i] = [field EXCEPT !.value = answer]
                  ELSE ret[i] = field

\* fill() fails on the first field and the second one is still filled
C27_FilledAfterAFailure ==
    /\ phase = "called"
    /\ Len(arg.fields) = 2
    /\ arg.fields[1] = [visible |-> TRUE, disabled |-> FALSE, value |-> <<>>,
                        prompt |-> <<"Visa", " ", "sponsorship">>, fill_ok |-> FALSE]
    /\ arg.fields[2] = [visible |-> TRUE, disabled |-> FALSE, value |-> <<" ">>,
                        prompt |-> <<"Visa", " ", "sponsorship">>, fill_ok |-> TRUE]
    /\ ~arg.llm.enabled
    /\ ret[1].value = <<>>
    /\ ret[2].value = <<"No">>

\* C28: when page.goto or the scraping of a job's page fails, the job goes
\* on as its seed: the posting is the seed unchanged, the enrichment page is
\* closed, the run has no error and the job has no result when it reaches
\* the filter; enriched or not, the posting keeps the seed's job_id and url.
\* (An error of context.new_page(), before the page exists, ends the run.)
C28_ScrapeErrorFallsBackToSeed ==
    /\ trail.enriched =>
          /\ job.job_id = jobs[idx].job_id
          /\ job.url = jobs[idx].url
          /\ trail.enrichPage = "closed"
    /\ trail.enrichError = "scrape" =>
          /\ trail.enriched
          /\ job = jobs[idx]
          /\ error.at # "enrich"
          /\ pc = "filter" => error = NoError /\ Len(results) = idx - 1
          /\ Len(results) >= idx =>
                results[idx].reason \in {"filter_mismatch", "apply_button_not_found",
                                         "submit_button_reached", "unable_to_reach_submit",
                                         ""} \cup ExceptionMessages
    /\ trail.enrichError = "new_page" =>
          /\ ~trail.enriched
          /\ trail.enrichPage = "none"
          /\ error.at = "enrich"

\* a job whose page could not be scraped is in its apply flow
C28_SeedGoesOnToApply ==
    /\ trail.enrichError = "scrape"
    /\ pc = "apply_buttons"
    /\ job = jobs[idx]
    /\ error = NoError

\* C29: two jobs with different job ids get different slugs, whatever their
\* companies and titles are.
C29_DifferentIdsDifferentSlugs ==
    (phase = "called" /\ Canon(arg.one.job_id) # Canon(arg.two.job_id)) =>
        ret.one # ret.two

====
